---- MODULE Spec2Model ----
(***************************************************************************)
(* State-machine model of contracts/Voting.sol (the Election State         *)
(* Machine) and of the candidate-name validation of the frontend.          *)
(*                                                                         *)
(* Every public function of the contract is one action.  A transaction is  *)
(* executed by the EVM as one indivisible unit: a failing require reverts  *)
(* every write and every emit of the transaction, so an action either      *)
(* applies all the writes of the function body or none.  The variable last *)
(* is the receipt of the transaction executed last: the call, its outcome  *)
(* (the revert string or OK) and the events it emitted (logs).             *)
(*                                                                         *)
(* The event log of the contract is the concatenation of the logs of all   *)
(* receipts.  It grows with every successful transaction, so it is         *)
(* accumulated, in events, only in the behaviours of SpecAudit (recording  *)
(* is TRUE), which are cut at MaxEvents events; the behaviours of Spec     *)
(* follow the storage and the receipts through runs of any length.         *)
(* SpecQuery adds the calls of the view functions as steps, and SpecSteps  *)
(* executes the five functions one statement at a time, pc being the       *)
(* position in the function body and frame the storage to revert to.       *)
(* SpecFrontend adds one page of the frontend: calls holds the calls of     *)
(* submitVote that have not returned, each waiting at one of its awaits;   *)
(* the transactions of all the accounts are executed between a request of  *)
(* the page, its execution by the node and the arrival of the answer.      *)
(*                                                                         *)
(* Addresses are 0..NumAddr, 0 being address(0).  A string is held run-    *)
(* length encoded: a sequence of runs <<c, n>>, n >= 1 copies of the       *)
(* Unicode code point c, so "AAB" is << <<65, 2>>, <<66, 1>> >>;            *)
(* bytes(_name).length is its UTF-8 length and .length of the frontend is  *)
(* its number of UTF-16 code units.  The uint timestamp field of the       *)
(* events is block.timestamp, a value of the environment that no code of   *)
(* the contract reads: events are modelled by their other fields.          *)
(***************************************************************************)
EXTENDS Integers, Sequences, FiniteSets, TLC

\* ---------------------------------------------------------------- bounds
NumAddr == 2         \* non-null addresses 1..NumAddr
MaxCand == 2         \* candidates that can be added in a run
MaxEvents == 6       \* length of the recorded event log (the constructor emits 2)

\* ------------------------------------------------------------- constants
NullAddress == 0     \* address(0)
Deployer == 1        \* msg.sender of the constructor
MaxNameLength == 64  \* bytes, addCandidate

Addresses == 0..NumAddr
Senders == 1..NumAddr          \* msg.sender of a transaction is never address(0)
CandidateIds == 0..(MaxCand + 1)   \* keys of voteCounts / candidates looked at

\* the string made of n copies of the code point c
Repeat(c, n) == << <<c, n>> >>

EmptyString == << >>
\* the names offered to addCandidate: "", " ", "A" x 64, "A" x 65, and
\* 33 times the two-byte letter U+00E9 (66 bytes)
Names == { EmptyString, Repeat(32, 1),
           Repeat(65, MaxNameLength), Repeat(65, MaxNameLength + 1),
           Repeat(233, 33) }

\* ------------------------------------------------------- revert strings
OK == "ok"
AccessDenied == "Only admin can perform this action"
NotRegistered == "You are not registered to vote"
AlreadyVoted == "You have already voted"
ElectionInactive == "Voting is currently inactive"
DuplicateRegistration == "Voter is already registered"
InvalidVoterAddress == "Invalid voter address"
EmptyName == "Candidate name cannot be empty"
NameTooLong == "Candidate name too long"
InvalidAdminAddress == "Invalid admin address"
SameAuthority == "New admin cannot be the same as current admin"
InvalidCandidate == "Invalid candidate ID"

VARIABLES admin, registeredVoters, hasVoted, voteCounts, candidates,
          candidateCount, totalVotes, votingActive, last, events, recording,
          pc, frame, calls

\* the storage of the contract
storage == <<admin, registeredVoters, hasVoted, voteCounts, candidates,
             candidateCount, totalVotes, votingActive>>
vars == <<admin, registeredVoters, hasVoted, voteCounts, candidates,
          candidateCount, totalVotes, votingActive, last, events, recording,
          pc, frame, calls>>

\* ---------------------------------------------------------------- events
VoterRegistered(voter) == [type |-> "VoterRegistered", voter |-> voter]
CandidateAdded(id, name) == [type |-> "CandidateAdded", candidateId |-> id, name |-> name]
VoteCast(voter, id) == [type |-> "VoteCast", voter |-> voter, candidateId |-> id]
VotingStatusChanged(active) == [type |-> "VotingStatusChanged", active |-> active]
AdminChanged(old, new) == [type |-> "AdminChanged", oldAdmin |-> old, newAdmin |-> new]

\* ----------------------------------------------------------------- names
\* UTF-8 width of one code point
Utf8Width(c) == IF c < 128 THEN 1 ELSE IF c < 2048 THEN 2 ELSE IF c < 65536 THEN 3 ELSE 4

\* bytes(_name).length
RECURSIVE bytesLength(_)
bytesLength(name) ==
    IF name = << >> THEN 0
    ELSE Utf8Width(Head(name)[1]) * Head(name)[2] + bytesLength(Tail(name))

\* UTF-16 code units of one code point
Utf16Width(c) == IF c < 65536 THEN 1 ELSE 2

\* String.prototype.length
RECURSIVE length(_)
length(s) ==
    IF s = << >> THEN 0
    ELSE Utf16Width(Head(s)[1]) * Head(s)[2] + length(Tail(s))

\* the code points String.prototype.trim strips: white space and line terminators
IsWhiteSpace(c) ==
    c \in ({9, 10, 11, 12, 13, 32, 160, 5760, 8232, 8233, 8239, 8287, 12288, 65279}
             \cup (8192..8202))

RECURSIVE trimStart(_)
trimStart(s) ==
    IF s = << >> THEN s
    ELSE IF IsWhiteSpace(Head(s)[1]) THEN trimStart(Tail(s)) ELSE s

RECURSIVE trimEnd(_)
trimEnd(s) ==
    IF s = << >> THEN s
    ELSE IF IsWhiteSpace(s[Len(s)][1]) THEN trimEnd(SubSeq(s, 1, Len(s) - 1)) ELSE s

\* String.prototype.trim
trim(s) == trimEnd(trimStart(s))

\* frontend: name && name.trim().length > 0 && name.trim().length <= 64
validateCandidateName(name) ==
    /\ name # EmptyString
    /\ length(trim(name)) > 0
    /\ length(trim(name)) <= 64

\* ------------------------------------------------------------- modifiers
\* mutant: the deployer keeps the administrative rights after a transfer
onlyAdmin_deployerToo(sender) == sender = admin \/ sender = Deployer
onlyAdmin(sender) == sender = admin
\* mutant: the onlyRegisteredVoter modifier is left off vote
onlyRegisteredVoter_off(sender) == TRUE
onlyRegisteredVoter(sender) == registeredVoters[sender]
\* mutant: the hasNotVoted modifier is left off vote
hasNotVoted_off(sender) == TRUE
hasNotVoted(sender) == ~hasVoted[sender]
\* mutant: the votingIsActive modifier is left off vote
votingIsActive_off == TRUE
votingIsActive == votingActive

\* ------------------------------------------- outcome of each transaction
\* the revert string of the first failing require, or OK
\* mutant: the input is validated before the caller is checked
registerVoterResult_validateFirst(sender, voter) ==
    IF registeredVoters[voter] THEN DuplicateRegistration
    ELSE IF voter = NullAddress THEN InvalidVoterAddress
    ELSE IF ~onlyAdmin(sender) THEN AccessDenied
    ELSE OK

\* mutant: the require on address(0) is missing
registerVoterResult_noZeroCheck(sender, voter) ==
    IF ~onlyAdmin(sender) THEN AccessDenied
    ELSE IF registeredVoters[voter] THEN DuplicateRegistration
    ELSE OK

\* mutant: the onlyAdmin modifier is left off registerVoter
registerVoterResult_noAdminCheck(sender, voter) ==
    IF registeredVoters[voter] THEN DuplicateRegistration
    ELSE IF voter = NullAddress THEN InvalidVoterAddress
    ELSE OK

registerVoterResult(sender, voter) ==
    IF ~onlyAdmin(sender) THEN AccessDenied
    ELSE IF registeredVoters[voter] THEN DuplicateRegistration
    ELSE IF voter = NullAddress THEN InvalidVoterAddress
    ELSE OK

\* mutant: candidates can be added only while the election is inactive
addCandidateResult_setupOnly(sender, name) ==
    IF ~onlyAdmin(sender) THEN AccessDenied
    ELSE IF votingActive THEN ElectionInactive
    ELSE IF ~(bytesLength(name) > 0) THEN EmptyName
    ELSE IF ~(bytesLength(name) <= MaxNameLength) THEN NameTooLong
    ELSE OK

\* mutant: the bound is compared with < instead of <=
addCandidateResult_strictBound(sender, name) ==
    IF ~onlyAdmin(sender) THEN AccessDenied
    ELSE IF ~(bytesLength(name) > 0) THEN EmptyName
    ELSE IF ~(bytesLength(name) < MaxNameLength) THEN NameTooLong
    ELSE OK

addCandidateResult(sender, name) ==
    IF ~onlyAdmin(sender) THEN AccessDenied
    ELSE IF ~(bytesLength(name) > 0) THEN EmptyName
    ELSE IF ~(bytesLength(name) <= MaxNameLength) THEN NameTooLong
    ELSE OK

\* mutant: an election that has received votes cannot be reopened
toggleVotingResult_oneWay(sender) ==
    IF ~onlyAdmin(sender) THEN AccessDenied
    ELSE IF ~votingActive /\ totalVotes > 0 THEN ElectionInactive
    ELSE OK

toggleVotingResult(sender) ==
    IF ~onlyAdmin(sender) THEN AccessDenied ELSE OK

\* mutant: the require on address(0) is missing
transferAdminResult_noZeroCheck(sender, newAdmin) ==
    IF ~onlyAdmin(sender) THEN AccessDenied
    ELSE IF newAdmin = admin THEN SameAuthority
    ELSE OK

\* mutant: the require on the current admin is missing
transferAdminResult_noSameCheck(sender, newAdmin) ==
    IF ~onlyAdmin(sender) THEN AccessDenied
    ELSE IF newAdmin = NullAddress THEN InvalidAdminAddress
    ELSE OK

\* mutant: the onlyAdmin modifier is left off transferAdmin
transferAdminResult_noAdminCheck(sender, newAdmin) ==
    IF newAdmin = NullAddress THEN InvalidAdminAddress
    ELSE IF newAdmin = admin THEN SameAuthority
    ELSE OK

transferAdminResult(sender, newAdmin) ==
    IF ~onlyAdmin(sender) THEN AccessDenied
    ELSE IF newAdmin = NullAddress THEN InvalidAdminAddress
    ELSE IF newAdmin = admin THEN SameAuthority
    ELSE OK

\* mutant: the voted flag and the active flag are left to the frontend
voteResult_frontendChecked(sender, candidateId) ==
    IF ~onlyRegisteredVoter(sender) THEN NotRegistered
    ELSE IF ~(candidateId > 0 /\ candidateId <= candidateCount) THEN InvalidCandidate
    ELSE OK

\* mutant: the upper bound of the candidate id is off by one
voteResult_offByOne(sender, candidateId) ==
    IF ~onlyRegisteredVoter(sender) THEN NotRegistered
    ELSE IF ~hasNotVoted(sender) THEN AlreadyVoted
    ELSE IF ~votingIsActive THEN ElectionInactive
    ELSE IF ~(candidateId > 0 /\ candidateId <= candidateCount + 1) THEN InvalidCandidate
    ELSE OK

\* mutant: the modifiers of vote are listed with votingIsActive first
voteResult_activeFirst(sender, candidateId) ==
    IF ~votingIsActive THEN ElectionInactive
    ELSE IF ~onlyRegisteredVoter(sender) THEN NotRegistered
    ELSE IF ~hasNotVoted(sender) THEN AlreadyVoted
    ELSE IF ~(candidateId > 0 /\ candidateId <= candidateCount) THEN InvalidCandidate
    ELSE OK

voteResult(sender, candidateId) ==
    IF ~onlyRegisteredVoter(sender) THEN NotRegistered
    ELSE IF ~hasNotVoted(sender) THEN AlreadyVoted
    ELSE IF ~votingIsActive THEN ElectionInactive
    ELSE IF ~(candidateId > 0 /\ candidateId <= candidateCount) THEN InvalidCandidate
    ELSE OK

\* the receipt of a transaction
Tx(op, sender, addr, name, id, err, logs) ==
    [op |-> op, sender |-> sender, addr |-> addr, name |-> name, id |-> id,
     err |-> err, logs |-> logs]

\* a successful transaction needs room in the event log when it is recorded
Room(err) == (err = OK /\ recording) => Len(events) < MaxEvents

\* the transaction ends: its logs join the event log, its receipt is last
Receipt(op, sender, addr, name, id, err, logs) ==
    /\ last' = Tx(op, sender, addr, name, id, err, logs)
    /\ events' = IF recording THEN events \o logs ELSE events
    /\ UNCHANGED <<recording, pc, frame>>

\* no transaction is being executed: pc is 0 and there is no frame
NoFrame == [saved |-> << >>, oldAdmin |-> NullAddress]

\* ---- the page of the frontend (SpecFrontend)
MaxCalls == 1        \* calls of submitVote running at a time

Calls == 1..MaxCalls

\* candidates.find(...) found nothing
undefined == [id |-> 0, name |-> EmptyString, votes |-> 0, exists |-> FALSE]

\* no call of submitVote: at is the await a call is waiting at, answer
\* what the node has answered to the request of that await when the page
\* has not received it yet, the other fields are the locals of the call
\* and of the functions it is in
NoCall == [at |-> "none", voterAddress |-> NullAddress, contractAPI |-> "",
           candidateCount |-> 0, i |-> 0, candidates |-> << >>,
           selectedCandidate |-> undefined,
           candidateId |-> 0, from |-> NullAddress, answer |-> << >>,
           error |-> OK]

\* the page as loaded: submitVote has not been called
PageLoaded == calls = [k \in Calls |-> NoCall]

\* the events the constructor emits
ConstructorLogs == << AdminChanged(NullAddress, Deployer), VotingStatusChanged(FALSE) >>

\* ------------------------------------------------------------------ Init
\* mutant: the constructor opens the election
Constructed_active ==
    /\ admin = Deployer
    /\ votingActive = TRUE
    /\ candidateCount = 0
    /\ totalVotes = 0
    /\ registeredVoters = [a \in Addresses |-> FALSE]
    /\ hasVoted = [a \in Addresses |-> FALSE]
    /\ voteCounts = [i \in CandidateIds |-> 0]
    /\ candidates = [i \in CandidateIds |-> EmptyString]
    /\ last = Tx("constructor", Deployer, NullAddress, EmptyString, 0, OK,
                 << AdminChanged(NullAddress, Deployer), VotingStatusChanged(TRUE) >>)
    /\ pc = 0 /\ frame = NoFrame /\ PageLoaded

\* the state after construction
Constructed ==
    /\ admin = Deployer
    /\ votingActive = FALSE
    /\ candidateCount = 0
    /\ totalVotes = 0
    /\ registeredVoters = [a \in Addresses |-> FALSE]
    /\ hasVoted = [a \in Addresses |-> FALSE]
    /\ voteCounts = [i \in CandidateIds |-> 0]
    /\ candidates = [i \in CandidateIds |-> EmptyString]
    /\ last = Tx("constructor", Deployer, NullAddress, EmptyString, 0, OK, ConstructorLogs)
    /\ pc = 0 /\ frame = NoFrame /\ PageLoaded

Init ==
    /\ Constructed
    /\ recording = FALSE
    /\ events = << >>

InitAudit ==
    /\ Constructed
    /\ recording = TRUE
    /\ events = ConstructorLogs

\* --------------------------------------------------------------- actions
\* mutant: the flag is written before the address is validated, and the
\* validation returns instead of reverting
registerVoter_writeBeforeCheck(sender, voter) ==
    LET err == registerVoterResult(sender, voter) IN
    /\ Room(err)
    /\ IF err \in {OK, InvalidVoterAddress}
       THEN /\ registeredVoters' = [registeredVoters EXCEPT ![voter] = TRUE]
            /\ UNCHANGED <<admin, hasVoted, voteCounts, candidates,
                           candidateCount, totalVotes, votingActive>>
       ELSE UNCHANGED storage
    /\ Receipt("registerVoter", sender, voter, EmptyString, 0, err,
               IF err = OK THEN << VoterRegistered(voter) >> ELSE << >>)

registerVoter(sender, voter) ==
    LET err == registerVoterResult(sender, voter) IN
    /\ Room(err)
    /\ IF err = OK
       THEN /\ registeredVoters' = [registeredVoters EXCEPT ![voter] = TRUE]
            /\ UNCHANGED <<admin, hasVoted, voteCounts, candidates,
                           candidateCount, totalVotes, votingActive>>
       ELSE UNCHANGED storage
    /\ Receipt("registerVoter", sender, voter, EmptyString, 0, err,
               IF err = OK THEN << VoterRegistered(voter) >> ELSE << >>)

\* mutant: the name is stored before candidateCount is incremented
addCandidate_storeFirst(sender, name) ==
    LET err == addCandidateResult(sender, name) IN
    /\ Room(err)
    /\ err = OK => candidateCount < MaxCand
    /\ IF err = OK
       THEN /\ candidates' = [candidates EXCEPT ![candidateCount] = name]
            /\ candidateCount' = candidateCount + 1
            /\ UNCHANGED <<admin, registeredVoters, hasVoted, voteCounts,
                           totalVotes, votingActive>>
       ELSE UNCHANGED storage
    /\ Receipt("addCandidate", sender, NullAddress, name, 0, err,
               IF err = OK THEN << CandidateAdded(candidateCount + 1, name) >>
                           ELSE << >>)

\* mutant: the event is emitted with the count read before the increment
addCandidate_emitOldCount(sender, name) ==
    LET err == addCandidateResult(sender, name) IN
    /\ Room(err)
    /\ err = OK => candidateCount < MaxCand
    /\ IF err = OK
       THEN /\ candidateCount' = candidateCount + 1
            /\ candidates' = [candidates EXCEPT ![candidateCount'] = name]
            /\ UNCHANGED <<admin, registeredVoters, hasVoted, voteCounts,
                           totalVotes, votingActive>>
       ELSE UNCHANGED storage
    /\ Receipt("addCandidate", sender, NullAddress, name, 0, err,
               IF err = OK THEN << CandidateAdded(candidateCount, name) >>
                           ELSE << >>)

addCandidate(sender, name) ==
    LET err == addCandidateResult(sender, name) IN
    /\ Room(err)
    /\ err = OK => candidateCount < MaxCand
    /\ IF err = OK
       THEN /\ candidateCount' = candidateCount + 1
            /\ candidates' = [candidates EXCEPT ![candidateCount'] = name]
            /\ UNCHANGED <<admin, registeredVoters, hasVoted, voteCounts,
                           totalVotes, votingActive>>
       ELSE UNCHANGED storage
    /\ Receipt("addCandidate", sender, NullAddress, name, 0, err,
               IF err = OK THEN << CandidateAdded(candidateCount + 1, name) >>
                           ELSE << >>)

\* mutant: the flag is set to true instead of being flipped
toggleVoting_setTrue(sender) ==
    LET err == toggleVotingResult(sender) IN
    /\ Room(err)
    /\ IF err = OK
       THEN /\ votingActive' = TRUE
            /\ UNCHANGED <<admin, registeredVoters, hasVoted, voteCounts,
                           candidates, candidateCount, totalVotes>>
       ELSE UNCHANGED storage
    /\ Receipt("toggleVoting", sender, NullAddress, EmptyString, 0, err,
               IF err = OK THEN << VotingStatusChanged(TRUE) >> ELSE << >>)

\* mutant: reopening the election starts a new round of voting
toggleVoting_newRound(sender) ==
    LET err == toggleVotingResult(sender) IN
    /\ Room(err)
    /\ IF err = OK
       THEN /\ votingActive' = ~votingActive
            /\ hasVoted' = IF votingActive THEN hasVoted
                                            ELSE [a \in Addresses |-> FALSE]
            /\ UNCHANGED <<admin, registeredVoters, voteCounts,
                           candidates, candidateCount, totalVotes>>
       ELSE UNCHANGED storage
    /\ Receipt("toggleVoting", sender, NullAddress, EmptyString, 0, err,
               IF err = OK THEN << VotingStatusChanged(~votingActive) >> ELSE << >>)

toggleVoting(sender) ==
    LET err == toggleVotingResult(sender) IN
    /\ Room(err)
    /\ IF err = OK
       THEN /\ votingActive' = ~votingActive
            /\ UNCHANGED <<admin, registeredVoters, hasVoted, voteCounts,
                           candidates, candidateCount, totalVotes>>
       ELSE UNCHANGED storage
    /\ Receipt("toggleVoting", sender, NullAddress, EmptyString, 0, err,
               IF err = OK THEN << VotingStatusChanged(~votingActive) >> ELSE << >>)

\* mutant: the transfer closes the election
transferAdmin_closes(sender, newAdmin) ==
    LET err == transferAdminResult(sender, newAdmin)
        oldAdmin == admin IN
    /\ Room(err)
    /\ IF err = OK
       THEN /\ admin' = newAdmin
            /\ votingActive' = FALSE
            /\ UNCHANGED <<registeredVoters, hasVoted, voteCounts, candidates,
                           candidateCount, totalVotes>>
       ELSE UNCHANGED storage
    /\ Receipt("transferAdmin", sender, newAdmin, EmptyString, 0, err,
               IF err = OK THEN << AdminChanged(oldAdmin, newAdmin) >> ELSE << >>)

\* mutant: the emit of AdminChanged is missing
transferAdmin_silent(sender, newAdmin) ==
    LET err == transferAdminResult(sender, newAdmin) IN
    /\ Room(err)
    /\ IF err = OK
       THEN /\ admin' = newAdmin
            /\ UNCHANGED <<registeredVoters, hasVoted, voteCounts, candidates,
                           candidateCount, totalVotes, votingActive>>
       ELSE UNCHANGED storage
    /\ Receipt("transferAdmin", sender, newAdmin, EmptyString, 0, err, << >>)

transferAdmin(sender, newAdmin) ==
    LET err == transferAdminResult(sender, newAdmin)
        oldAdmin == admin IN
    /\ Room(err)
    /\ IF err = OK
       THEN /\ admin' = newAdmin
            /\ UNCHANGED <<registeredVoters, hasVoted, voteCounts, candidates,
                           candidateCount, totalVotes, votingActive>>
       ELSE UNCHANGED storage
    /\ Receipt("transferAdmin", sender, newAdmin, EmptyString, 0, err,
               IF err = OK THEN << AdminChanged(oldAdmin, newAdmin) >> ELSE << >>)

\* mutant: a vote uses up the registration of the voter
vote_unregisters(sender, candidateId) ==
    LET err == voteResult(sender, candidateId) IN
    /\ Room(err)
    /\ IF err = OK
       THEN /\ hasVoted' = [hasVoted EXCEPT ![sender] = TRUE]
            /\ registeredVoters' = [registeredVoters EXCEPT ![sender] = FALSE]
            /\ voteCounts' = [voteCounts EXCEPT ![candidateId] = @ + 1]
            /\ totalVotes' = totalVotes + 1
            /\ UNCHANGED <<admin, candidates, candidateCount, votingActive>>
       ELSE UNCHANGED storage
    /\ Receipt("vote", sender, NullAddress, EmptyString, candidateId, err,
               IF err = OK THEN << VoteCast(sender, candidateId) >> ELSE << >>)

\* mutant: totalVotes++ is missing
vote_skipTotal(sender, candidateId) ==
    LET err == voteResult(sender, candidateId) IN
    /\ Room(err)
    /\ IF err = OK
       THEN /\ hasVoted' = [hasVoted EXCEPT ![sender] = TRUE]
            /\ voteCounts' = [voteCounts EXCEPT ![candidateId] = @ + 1]
            /\ UNCHANGED <<admin, registeredVoters, candidates, candidateCount,
                           totalVotes, votingActive>>
       ELSE UNCHANGED storage
    /\ Receipt("vote", sender, NullAddress, EmptyString, candidateId, err,
               IF err = OK THEN << VoteCast(sender, candidateId) >> ELSE << >>)

\* mutant: voteCounts[_candidateId]++ is missing
vote_skipCount(sender, candidateId) ==
    LET err == voteResult(sender, candidateId) IN
    /\ Room(err)
    /\ IF err = OK
       THEN /\ hasVoted' = [hasVoted EXCEPT ![sender] = TRUE]
            /\ totalVotes' = totalVotes + 1
            /\ UNCHANGED <<admin, registeredVoters, candidates, candidateCount,
                           voteCounts, votingActive>>
       ELSE UNCHANGED storage
    /\ Receipt("vote", sender, NullAddress, EmptyString, candidateId, err,
               IF err = OK THEN << VoteCast(sender, candidateId) >> ELSE << >>)

vote(sender, candidateId) ==
    LET err == voteResult(sender, candidateId) IN
    /\ Room(err)
    /\ IF err = OK
       THEN /\ hasVoted' = [hasVoted EXCEPT ![sender] = TRUE]
            /\ voteCounts' = [voteCounts EXCEPT ![candidateId] = @ + 1]
            /\ totalVotes' = totalVotes + 1
            /\ UNCHANGED <<admin, registeredVoters, candidates, candidateCount,
                           votingActive>>
       ELSE UNCHANGED storage
    /\ Receipt("vote", sender, NullAddress, EmptyString, candidateId, err,
               IF err = OK THEN << VoteCast(sender, candidateId) >> ELSE << >>)

RegisterVoter ==
    \E s \in Senders, v \in Addresses : registerVoter(s, v) /\ UNCHANGED calls
AddCandidate ==
    \E s \in Senders, n \in Names : addCandidate(s, n) /\ UNCHANGED calls
ToggleVoting ==
    \E s \in Senders : toggleVoting(s) /\ UNCHANGED calls
TransferAdmin ==
    \E s \in Senders, a \in Addresses : transferAdmin(s, a) /\ UNCHANGED calls
Vote ==
    \E s \in Senders, i \in CandidateIds : vote(s, i) /\ UNCHANGED calls

Next == RegisterVoter \/ AddCandidate \/ ToggleVoting \/ TransferAdmin \/ Vote

\* the storage and the receipts, runs of any length
Spec == Init /\ [][Next]_vars

\* the same with the event log recorded, runs of at most MaxEvents events
SpecAudit == InitAudit /\ [][Next]_vars

TypeOK ==
    /\ admin \in Addresses
    /\ votingActive \in BOOLEAN
    /\ candidateCount \in 0..MaxCand
    /\ totalVotes \in 0..NumAddr
    /\ registeredVoters \in [Addresses -> BOOLEAN]
    /\ hasVoted \in [Addresses -> BOOLEAN]
    /\ voteCounts \in [CandidateIds -> 0..NumAddr]
    /\ Len(last.logs) <= 2
    /\ recording \in BOOLEAN
    /\ Len(events) <= MaxEvents
    /\ pc \in 0..8
    /\ \A k \in Calls :
          /\ calls[k].at \in {"none", "getVoterStatus", "candidateCount",
                               "getCandidateInfo", "confirmVote", "estimateGas",
                               "send", "refreshVotingPanel"}
          /\ calls[k].voterAddress \in Addresses
          /\ calls[k].from \in Addresses
          /\ calls[k].candidateId \in 0..MaxCand
          /\ calls[k].i \in 0..MaxCand
          /\ Len(calls[k].answer) <= 1
          /\ Len(calls[k].candidates) <= calls[k].candidateCount

\* ----------------------------------------------------------------- views
\* new uint[](n) / new string[](n): an array of n default values
NewArray(n, default) == [k \in 1..n |-> default]

\* mutant: the comparison of the scan is >= instead of >
showResultsLoop_geq(i, votes, names, highestVoteCount, winningCandidateId) ==
    LET RECURSIVE Scan(_, _, _, _, _)
        Scan(j, vs, ns, h, w) ==
            IF ~(j <= candidateCount)
            THEN [votes |-> vs, names |-> ns, winningCandidateId |-> w]
            ELSE LET vs1 == [vs EXCEPT ![j] = voteCounts[j]]
                     ns1 == [ns EXCEPT ![j] = candidates[j]]
                 IN  IF voteCounts[j] >= h
                     THEN Scan(j + 1, vs1, ns1, voteCounts[j], j)
                     ELSE Scan(j + 1, vs1, ns1, h, w)
    IN  Scan(i, votes, names, highestVoteCount, winningCandidateId)

\* the for loop of showResults from candidate i on; votes[i-1] of the code
\* is position i of the sequence
RECURSIVE showResultsLoop(_, _, _, _, _)
showResultsLoop(i, votes, names, highestVoteCount, winningCandidateId) ==
    IF ~(i <= candidateCount)
    THEN [votes |-> votes, names |-> names, winningCandidateId |-> winningCandidateId]
    ELSE LET votes1 == [votes EXCEPT ![i] = voteCounts[i]]
             names1 == [names EXCEPT ![i] = candidates[i]]
         IN  IF voteCounts[i] > highestVoteCount
             THEN showResultsLoop(i + 1, votes1, names1, voteCounts[i], i)
             ELSE showResultsLoop(i + 1, votes1, names1, highestVoteCount,
                                  winningCandidateId)

showResults ==
    LET votes == NewArray(candidateCount, 0)
        names == NewArray(candidateCount, EmptyString)
    IN  IF candidateCount = 0
        THEN [votes |-> votes, names |-> names, winningCandidateId |-> 0]
        ELSE showResultsLoop(1, votes, names, 0, 1)

\* mutant: the winner of getWinner is the last candidate with the highest count
getWinnerLoop_geq(i, highestVoteCount, winningCandidateId) ==
    LET RECURSIVE Scan(_, _, _)
        Scan(j, h, w) ==
            IF ~(j <= candidateCount)
            THEN [highestVoteCount |-> h, winningCandidateId |-> w]
            ELSE IF voteCounts[j] >= h
                 THEN Scan(j + 1, voteCounts[j], j)
                 ELSE Scan(j + 1, h, w)
    IN  Scan(i, highestVoteCount, winningCandidateId)

\* the for loop of getWinner from candidate i on
RECURSIVE getWinnerLoop(_, _, _)
getWinnerLoop(i, highestVoteCount, winningCandidateId) ==
    IF ~(i <= candidateCount)
    THEN [highestVoteCount |-> highestVoteCount,
          winningCandidateId |-> winningCandidateId]
    ELSE IF voteCounts[i] > highestVoteCount
         THEN getWinnerLoop(i + 1, voteCounts[i], i)
         ELSE getWinnerLoop(i + 1, highestVoteCount, winningCandidateId)

\* mutant: a winner is reported only once a vote has been counted
getWinner_needsVotes ==
    IF candidateCount = 0
    THEN [winnerName |-> EmptyString, winnerVotes |-> 0, winnerExists |-> FALSE]
    ELSE LET r == getWinnerLoop(1, 0, 1)
         IN  [winnerName |-> candidates[r.winningCandidateId],
              winnerVotes |-> r.highestVoteCount,
              winnerExists |-> r.highestVoteCount > 0]

getWinner ==
    IF candidateCount = 0
    THEN [winnerName |-> EmptyString, winnerVotes |-> 0, winnerExists |-> FALSE]
    ELSE LET r == getWinnerLoop(1, 0, 1)
         IN  [winnerName |-> candidates[r.winningCandidateId],
              winnerVotes |-> r.highestVoteCount,
              winnerExists |-> TRUE]

\* mutant: the test on id 0 is missing
getCandidateInfo_noZeroCheck(_candidateId) ==
    IF _candidateId > candidateCount
    THEN [name |-> EmptyString, votes |-> 0, exists |-> FALSE]
    ELSE [name |-> candidates[_candidateId],
          votes |-> voteCounts[_candidateId],
          exists |-> TRUE]

getCandidateInfo(_candidateId) ==
    IF _candidateId = 0 \/ _candidateId > candidateCount
    THEN [name |-> EmptyString, votes |-> 0, exists |-> FALSE]
    ELSE [name |-> candidates[_candidateId],
          votes |-> voteCounts[_candidateId],
          exists |-> TRUE]

\* mutant: canVote does not look at hasVoted
getVoterStatus_ignoreVoted(_voter) ==
    LET isRegistered == registeredVoters[_voter]
        hasVotedAlready == hasVoted[_voter]
        canVote == isRegistered /\ votingActive
    IN  [isRegistered |-> isRegistered, hasVotedAlready |-> hasVotedAlready,
         canVote |-> canVote]

\* mutant: canVote does not look at votingActive
getVoterStatus_ignoreActive(_voter) ==
    LET isRegistered == registeredVoters[_voter]
        hasVotedAlready == hasVoted[_voter]
        canVote == isRegistered /\ ~hasVotedAlready
    IN  [isRegistered |-> isRegistered, hasVotedAlready |-> hasVotedAlready,
         canVote |-> canVote]

getVoterStatus(_voter) ==
    LET isRegistered == registeredVoters[_voter]
        hasVotedAlready == hasVoted[_voter]
        canVote == isRegistered /\ ~hasVotedAlready /\ votingActive
    IN  [isRegistered |-> isRegistered, hasVotedAlready |-> hasVotedAlready,
         canVote |-> canVote]

\* mutant: currentAdmin is the admin the constructor set
getElectionStats_deployer ==
    [totalCandidates |-> candidateCount, totalVotesCast |-> totalVotes,
     isVotingActive |-> votingActive, currentAdmin |-> Deployer]

getElectionStats ==
    [totalCandidates |-> candidateCount, totalVotesCast |-> totalVotes,
     isVotingActive |-> votingActive, currentAdmin |-> admin]

\* ----------------------------------------------------------- view calls
\* The five functions above are declared public view with no modifier: a
\* call of one by any sender runs to its return statement, writes no storage
\* and emits no event.  The receipt of the call names the function and its
\* argument; what it returns is the operator above in the state of the call.
Queries == {"showResults", "getWinner", "getCandidateInfo", "getVoterStatus",
            "getElectionStats"}

\* mutant: showResults is restricted to the admin
callShowResults_onlyAdmin(sender) ==
    /\ UNCHANGED storage
    /\ Receipt("showResults", sender, NullAddress, EmptyString, 0,
               IF onlyAdmin(sender) THEN OK ELSE AccessDenied, << >>)

callShowResults(sender) ==
    /\ UNCHANGED storage
    /\ Receipt("showResults", sender, NullAddress, EmptyString, 0, OK, << >>)

callGetWinner(sender) ==
    /\ UNCHANGED storage
    /\ Receipt("getWinner", sender, NullAddress, EmptyString, 0, OK, << >>)

callGetCandidateInfo(sender, _candidateId) ==
    /\ UNCHANGED storage
    /\ Receipt("getCandidateInfo", sender, NullAddress, EmptyString,
               _candidateId, OK, << >>)

callGetVoterStatus(sender, _voter) ==
    /\ UNCHANGED storage
    /\ Receipt("getVoterStatus", sender, _voter, EmptyString, 0, OK, << >>)

callGetElectionStats(sender) ==
    /\ UNCHANGED storage
    /\ Receipt("getElectionStats", sender, NullAddress, EmptyString, 0, OK, << >>)

ShowResults == \E s \in Senders : callShowResults(s) /\ UNCHANGED calls
GetWinner == \E s \in Senders : callGetWinner(s) /\ UNCHANGED calls
GetCandidateInfo ==
    \E s \in Senders, i \in CandidateIds :
        callGetCandidateInfo(s, i) /\ UNCHANGED calls
GetVoterStatus ==
    \E s \in Senders, v \in Addresses :
        callGetVoterStatus(s, v) /\ UNCHANGED calls
GetElectionStats == \E s \in Senders : callGetElectionStats(s) /\ UNCHANGED calls

NextQuery ==
    \/ Next
    \/ ShowResults \/ GetWinner \/ GetCandidateInfo \/ GetVoterStatus
    \/ GetElectionStats

\* the transactions and the view calls, in any order
SpecQuery == Init /\ [][NextQuery]_vars

\* -------------------------------------------- statement by statement
\* The same five functions, executed one statement at a time: a modifier is
\* the require of its body, and the function body follows the modifiers in
\* the order of the function header.  pc is the position of the statement
\* to execute in the body of last.op (0: no transaction is executing),
\* last holds the call with the outcome Pending, frame.saved the storage at
\* the start of the transaction, to which a failing require reverts, and
\* frame.oldAdmin the local variable of transferAdmin.  The contract calls
\* no other contract, so a transaction starts only when none is executing.
Pending == "pending"

registerVoterBody ==
    << "onlyAdmin",
       "require(!registeredVoters[_voter])",
       "require(_voter != address(0))",
       "registeredVoters[_voter] = true",
       "emit VoterRegistered" >>

addCandidateBody ==
    << "onlyAdmin",
       "require(bytes(_name).length > 0)",
       "require(bytes(_name).length <= 64)",
       "candidateCount++",
       "candidates[candidateCount] = _name",
       "emit CandidateAdded" >>

toggleVotingBody ==
    << "onlyAdmin",
       "votingActive = !votingActive",
       "emit VotingStatusChanged" >>

transferAdminBody ==
    << "onlyAdmin",
       "require(_newAdmin != address(0))",
       "require(_newAdmin != admin)",
       "address oldAdmin = admin",
       "admin = _newAdmin",
       "emit AdminChanged" >>

\* mutant: the voted flag is written before the candidate id is checked
voteBody_writeFirst ==
    << "onlyRegisteredVoter",
       "hasNotVoted",
       "votingIsActive",
       "hasVoted[msg.sender] = true",
       "require(_candidateId > 0 && _candidateId <= candidateCount)",
       "voteCounts[_candidateId]++",
       "totalVotes++",
       "emit VoteCast" >>

voteBody ==
    << "onlyRegisteredVoter",
       "hasNotVoted",
       "votingIsActive",
       "require(_candidateId > 0 && _candidateId <= candidateCount)",
       "hasVoted[msg.sender] = true",
       "voteCounts[_candidateId]++",
       "totalVotes++",
       "emit VoteCast" >>

Body(op) ==
    CASE op = "registerVoter" -> registerVoterBody
      [] op = "addCandidate" -> addCandidateBody
      [] op = "toggleVoting" -> toggleVotingBody
      [] op = "transferAdmin" -> transferAdminBody
      [] op = "vote" -> voteBody

\* the statement at pc
Stmt == Body(last.op)[pc]

\* the require statements, with the condition and the revert string of each
Requires ==
    { "onlyAdmin", "onlyRegisteredVoter", "hasNotVoted", "votingIsActive",
      "require(!registeredVoters[_voter])", "require(_voter != address(0))",
      "require(bytes(_name).length > 0)", "require(bytes(_name).length <= 64)",
      "require(_newAdmin != address(0))", "require(_newAdmin != admin)",
      "require(_candidateId > 0 && _candidateId <= candidateCount)" }

Condition(stmt) ==
    CASE stmt = "onlyAdmin" -> onlyAdmin(last.sender)
      [] stmt = "onlyRegisteredVoter" -> onlyRegisteredVoter(last.sender)
      [] stmt = "hasNotVoted" -> hasNotVoted(last.sender)
      [] stmt = "votingIsActive" -> votingIsActive
      [] stmt = "require(!registeredVoters[_voter])" -> ~registeredVoters[last.addr]
      [] stmt = "require(_voter != address(0))" -> last.addr # NullAddress
      [] stmt = "require(bytes(_name).length > 0)" -> bytesLength(last.name) > 0
      [] stmt = "require(bytes(_name).length <= 64)" ->
             bytesLength(last.name) <= MaxNameLength
      [] stmt = "require(_newAdmin != address(0))" -> last.addr # NullAddress
      [] stmt = "require(_newAdmin != admin)" -> last.addr # admin
      [] stmt = "require(_candidateId > 0 && _candidateId <= candidateCount)" ->
             last.id > 0 /\ last.id <= candidateCount

Message(stmt) ==
    CASE stmt = "onlyAdmin" -> AccessDenied
      [] stmt = "onlyRegisteredVoter" -> NotRegistered
      [] stmt = "hasNotVoted" -> AlreadyVoted
      [] stmt = "votingIsActive" -> ElectionInactive
      [] stmt = "require(!registeredVoters[_voter])" -> DuplicateRegistration
      [] stmt = "require(_voter != address(0))" -> InvalidVoterAddress
      [] stmt = "require(bytes(_name).length > 0)" -> EmptyName
      [] stmt = "require(bytes(_name).length <= 64)" -> NameTooLong
      [] stmt = "require(_newAdmin != address(0))" -> InvalidAdminAddress
      [] stmt = "require(_newAdmin != admin)" -> SameAuthority
      [] stmt = "require(_candidateId > 0 && _candidateId <= candidateCount)" ->
             InvalidCandidate

\* the event of an emit statement, from the storage and the locals at the emit
Emitted(stmt) ==
    CASE stmt = "emit VoterRegistered" -> VoterRegistered(last.addr)
      [] stmt = "emit CandidateAdded" -> CandidateAdded(candidateCount, last.name)
      [] stmt = "emit VotingStatusChanged" -> VotingStatusChanged(votingActive)
      [] stmt = "emit AdminChanged" -> AdminChanged(frame.oldAdmin, last.addr)
      [] stmt = "emit VoteCast" -> VoteCast(last.sender, last.id)

\* a transaction starts
Begin(op, sender, addr, name, id) ==
    /\ pc = 0
    /\ pc' = 1
    /\ frame' = [saved |-> storage, oldAdmin |-> NullAddress]
    /\ last' = Tx(op, sender, addr, name, id, Pending, << >>)
    /\ UNCHANGED <<storage, events, recording, calls>>

BeginRegisterVoter ==
    \E s \in Senders, v \in Addresses :
        Begin("registerVoter", s, v, EmptyString, 0)
BeginAddCandidate ==
    \E s \in Senders, n \in Names :
        /\ addCandidateResult(s, n) = OK => candidateCount < MaxCand
        /\ Begin("addCandidate", s, NullAddress, n, 0)
BeginToggleVoting ==
    \E s \in Senders : Begin("toggleVoting", s, NullAddress, EmptyString, 0)
BeginTransferAdmin ==
    \E s \in Senders, a \in Addresses :
        Begin("transferAdmin", s, a, EmptyString, 0)
BeginVote ==
    \E s \in Senders, i \in CandidateIds :
        Begin("vote", s, NullAddress, EmptyString, i)

\* a require whose condition holds
Pass ==
    /\ pc > 0 /\ Stmt \in Requires /\ Condition(Stmt)
    /\ pc' = pc + 1
    /\ UNCHANGED <<storage, last, events, recording, frame, calls>>

\* a require whose condition fails: the transaction reverts
Revert ==
    /\ pc > 0 /\ Stmt \in Requires /\ ~Condition(Stmt)
    /\ admin' = frame.saved[1]
    /\ registeredVoters' = frame.saved[2]
    /\ hasVoted' = frame.saved[3]
    /\ voteCounts' = frame.saved[4]
    /\ candidates' = frame.saved[5]
    /\ candidateCount' = frame.saved[6]
    /\ totalVotes' = frame.saved[7]
    /\ votingActive' = frame.saved[8]
    /\ last' = [last EXCEPT !.err = Message(Stmt)]
    /\ pc' = 0 /\ frame' = NoFrame
    /\ UNCHANGED <<events, recording, calls>>

\* an assignment
Assign ==
    /\ pc > 0
    /\ \/ /\ Stmt = "registeredVoters[_voter] = true"
          /\ registeredVoters' = [registeredVoters EXCEPT ![last.addr] = TRUE]
          /\ UNCHANGED <<admin, hasVoted, voteCounts, candidates, candidateCount,
                         totalVotes, votingActive, frame>>
       \/ /\ Stmt = "candidateCount++"
          /\ candidateCount' = candidateCount + 1
          /\ UNCHANGED <<admin, registeredVoters, hasVoted, voteCounts, candidates,
                         totalVotes, votingActive, frame>>
       \/ /\ Stmt = "candidates[candidateCount] = _name"
          /\ candidates' = [candidates EXCEPT ![candidateCount] = last.name]
          /\ UNCHANGED <<admin, registeredVoters, hasVoted, voteCounts,
                         candidateCount, totalVotes, votingActive, frame>>
       \/ /\ Stmt = "votingActive = !votingActive"
          /\ votingActive' = ~votingActive
          /\ UNCHANGED <<admin, registeredVoters, hasVoted, voteCounts, candidates,
                         candidateCount, totalVotes, frame>>
       \/ /\ Stmt = "address oldAdmin = admin"
          /\ frame' = [frame EXCEPT !.oldAdmin = admin]
          /\ UNCHANGED storage
       \/ /\ Stmt = "admin = _newAdmin"
          /\ admin' = last.addr
          /\ UNCHANGED <<registeredVoters, hasVoted, voteCounts, candidates,
                         candidateCount, totalVotes, votingActive, frame>>
       \/ /\ Stmt = "hasVoted[msg.sender] = true"
          /\ hasVoted' = [hasVoted EXCEPT ![last.sender] = TRUE]
          /\ UNCHANGED <<admin, registeredVoters, voteCounts, candidates,
                         candidateCount, totalVotes, votingActive, frame>>
       \/ /\ Stmt = "voteCounts[_candidateId]++"
          /\ voteCounts' = [voteCounts EXCEPT ![last.id] = @ + 1]
          /\ UNCHANGED <<admin, registeredVoters, hasVoted, candidates,
                         candidateCount, totalVotes, votingActive, frame>>
       \/ /\ Stmt = "totalVotes++"
          /\ totalVotes' = totalVotes + 1
          /\ UNCHANGED <<admin, registeredVoters, hasVoted, voteCounts, candidates,
                         candidateCount, votingActive, frame>>
    /\ pc' = pc + 1
    /\ UNCHANGED <<last, events, recording, calls>>

\* the emit that ends every function body: the transaction succeeds
Emit ==
    /\ pc > 0 /\ pc = Len(Body(last.op))
    /\ last' = [last EXCEPT !.err = OK, !.logs = << Emitted(Stmt) >>]
    /\ pc' = 0 /\ frame' = NoFrame
    /\ UNCHANGED <<storage, events, recording, calls>>

NextSteps ==
    \/ BeginRegisterVoter \/ BeginAddCandidate \/ BeginToggleVoting
    \/ BeginTransferAdmin \/ BeginVote
    \/ Pass \/ Revert \/ Assign \/ Emit

\* the transactions, one statement at a time
SpecSteps == Init /\ [][NextSteps]_vars

\* ------------------------------------------------- frontend: submitVote
\* One page of the frontend next to the transactions of everybody else
\* (other pages of the same account included).  submitVote is an async
\* function: every await is a return to the event loop, and until the
\* answer arrives any number of transactions can be executed and any
\* callback of the page can run.  A request is answered from the chain as
\* it is when the answer is made.
\*
\* submitVote and the functions it calls read three fields they do not
\* write: web3Manager.account, web3Manager.contract and
\* UI_STATE.selectedCandidate.  The callbacks that write them (connect,
\* loadContract, accountsChanged, disconnect, selectCandidate) can run
\* between any two steps of a call and can leave any value in them, except
\* that a selection is never taken back.  So the fields are inputs of the
\* steps: each step reads them once, with the values the callbacks left.

\* web3Manager as a step can find it: account is null (NullAddress) before
\* connect and after disconnect, contract is null (FALSE) before
\* loadContract and after disconnect
Web3Managers == [account : Addresses, contract : BOOLEAN]

\* UI_STATE as a step can find it: selectedCandidate is null (0) until the
\* first selectCandidate(candidateId)
UI_STATEs == [selectedCandidate : 0..MaxCand]

\* UI_STATE once a candidate has been selected
UI_STATEsSelected == {u \in UI_STATEs : u.selectedCandidate # 0}

\* error.message of a failed request, of a transaction rejected in the
\* wallet, and of a TypeError (web3Manager.contract is null, or a BigInt
\* is multiplied by 1.2)
RequestFailed == "request failed"
UserDenied == "User denied"
TypeError == "TypeError"

\* the calls that are not running
FreeCalls == {k \in Calls : calls[k].at = "none"}

\* a call at await refreshVotingPanel(), error being what was caught
Refreshing(error) ==
    [NoCall EXCEPT !.at = "refreshVotingPanel", !.error = error]

\* candidates.find(c => c.id === id)
find(candidatesRead, id) ==
    LET hits == {j \in 1..Len(candidatesRead) : candidatesRead[j].id = id}
    IN  IF hits = {} THEN undefined
        ELSE candidatesRead[CHOOSE j \in hits : \A h \in hits : j <= h]

\* submitVote from the answer of getCandidates on: the selection is looked
\* up, as it is now, in the list read; the dialog of confirmVote is opened
\* when it is found
findSelected(UI_STATE, candidatesRead) ==
    LET selectedCandidate == find(candidatesRead, UI_STATE.selectedCandidate)
    IN  IF selectedCandidate = undefined
        THEN Refreshing(OK)
        ELSE [NoCall EXCEPT !.at = "confirmVote",
                            !.selectedCandidate = selectedCandidate]

\* The repository has two contractAPI objects with two getCandidates: the
\* one of the contract module, whose one catch returns [] whatever fails,
\* and the one of frontend/js/test.js, which catches inside the loop too,
\* skips the candidate whose request failed and goes on.  Which of them
\* contractAPI names depends on the scripts the page loads.
ContractAPIs == {"contract module", "test.js"}

\* the loop of getCandidates from candidate i on, with candidatesRead read
\* so far: the request of candidate i, or the return of the list.  When
\* web3Manager.contract is null the request throws: [] is returned, or
\* (test.js) this candidate and, for the same reason, every later one is
\* skipped
getCandidatesLoop(web3Manager, UI_STATE, api, count, i, candidatesRead) ==
    IF i <= count
    THEN IF web3Manager.contract
         THEN [NoCall EXCEPT !.at = "getCandidateInfo",
                             !.contractAPI = api,
                             !.candidateCount = count,
                             !.i = i,
                             !.candidates = candidatesRead]
         ELSE IF api = "test.js"
         THEN findSelected(UI_STATE, candidatesRead)
         ELSE findSelected(UI_STATE, << >>)
    ELSE findSelected(UI_STATE, candidatesRead)

\* contractAPI.getCandidates() up to its first request
getCandidates(web3Manager, UI_STATE) ==
    IF web3Manager.contract
    THEN [NoCall EXCEPT !.at = "candidateCount"]
    ELSE findSelected(UI_STATE, << >>)

\* call k goes on as c; the dialog of confirmVote replaces the handlers of
\* a dialog that is open, whose call is then never answered
Put(k, c) ==
    calls' = [j \in Calls |->
                IF j = k THEN c
                ELSE IF c.at = "confirmVote" /\ calls[j].at = "confirmVote"
                THEN NoCall
                ELSE calls[j]]

\* ---- submitVote, from one await to the next
\* A request of the page is answered in two steps: the node executes it on
\* the chain as it is then, and the answer is on its way (answer holds
\* it); later the page resumes with that answer, whatever has been
\* executed meanwhile.  A request that fails resumes the page with an
\* error, whether the node has executed it or not.

\* the request of call k has been executed and its answer not yet received
InFlight(k) == Len(calls[k].answer) = 1

\* the page can resume call k: with the answer, or with a failure
Resumes(k, failed) == failed \/ InFlight(k)

\* a click on the button: submitVote up to the request of getVoterStatus,
\* which is made for the account of now and returns null without a
\* request when there is no account or no contract
submitVote(web3Manager, UI_STATE) ==
    /\ FreeCalls # {}
    /\ LET k == CHOOSE k \in FreeCalls : \A j \in FreeCalls : k <= j
       IN  IF UI_STATE.selectedCandidate = 0
           THEN UNCHANGED calls
           ELSE IF web3Manager.account = NullAddress \/ ~web3Manager.contract
           THEN Put(k, Refreshing(OK))
           ELSE Put(k, [NoCall EXCEPT !.at = "getVoterStatus",
                                      !.voterAddress = web3Manager.account])
    /\ UNCHANGED <<storage, last, events, recording, pc, frame>>

\* the node executes getVoterStatus(voterAddress).call()
getVoterStatusCall(k) ==
    /\ calls[k].at = "getVoterStatus"
    /\ ~InFlight(k)
    /\ Put(k, [calls[k] EXCEPT !.answer = <<getVoterStatus(calls[k].voterAddress)>>])
    /\ UNCHANGED <<storage, last, events, recording, pc, frame>>

\* the answer of getVoterStatus arrives: submitVote reads canVote in it,
\* then getCandidates runs up to its first request
getVoterStatusAnswered(k, failed, web3Manager, UI_STATE) ==
    /\ calls[k].at = "getVoterStatus"
    /\ Resumes(k, failed)
    /\ IF failed
       THEN Put(k, Refreshing(OK))
       ELSE LET voterStatus == calls[k].answer[1]
            IN  IF ~voterStatus.canVote
                THEN Put(k, Refreshing(OK))
                ELSE Put(k, getCandidates(web3Manager, UI_STATE))
    /\ UNCHANGED <<storage, last, events, recording, pc, frame>>

\* the node executes candidateCount().call()
candidateCountCall(k) ==
    /\ calls[k].at = "candidateCount"
    /\ ~InFlight(k)
    /\ Put(k, [calls[k] EXCEPT !.answer = <<candidateCount>>])
    /\ UNCHANGED <<storage, last, events, recording, pc, frame>>

\* the answer of candidateCount() arrives; api is the getCandidates that
\* is running
candidateCountAnswered(k, failed, api, web3Manager, UI_STATE) ==
    /\ calls[k].at = "candidateCount"
    /\ Resumes(k, failed)
    /\ IF failed
       THEN Put(k, findSelected(UI_STATE, << >>))
       ELSE Put(k, getCandidatesLoop(web3Manager, UI_STATE, api,
                                     calls[k].answer[1], 1, << >>))
    /\ UNCHANGED <<storage, last, events, recording, pc, frame>>

\* the node executes getCandidateInfo(i).call()
getCandidateInfoCall(k) ==
    /\ calls[k].at = "getCandidateInfo"
    /\ ~InFlight(k)
    /\ Put(k, [calls[k] EXCEPT !.answer = <<getCandidateInfo(calls[k].i)>>])
    /\ UNCHANGED <<storage, last, events, recording, pc, frame>>

\* the answer of getCandidateInfo(i) arrives; when the request fails [] is
\* returned, or (test.js) the candidate is skipped
getCandidateInfoAnswered(k, failed, web3Manager, UI_STATE) ==
    /\ calls[k].at = "getCandidateInfo"
    /\ Resumes(k, failed)
    /\ LET i == calls[k].i
           api == calls[k].contractAPI
       IN  IF failed
           THEN IF api = "test.js"
                THEN Put(k, getCandidatesLoop(web3Manager, UI_STATE, api,
                              calls[k].candidateCount, i + 1, calls[k].candidates))
                ELSE Put(k, findSelected(UI_STATE, << >>))
           ELSE LET candidateInfo == calls[k].answer[1]
                IN  Put(k, getCandidatesLoop(web3Manager, UI_STATE, api,
                         calls[k].candidateCount, i + 1,
                         Append(calls[k].candidates,
                                [id |-> i,
                                 name |-> candidateInfo.name,
                                 votes |-> candidateInfo.votes,
                                 exists |-> candidateInfo.exists])))
    /\ UNCHANGED <<storage, last, events, recording, pc, frame>>

\* the answer of the user to the dialog, then castVote of the selection of
\* now up to the request of estimateGas, made from the account of now
confirmVoteAnswered(k, confirmed, web3Manager, UI_STATE) ==
    /\ calls[k].at = "confirmVote"
    /\ IF ~confirmed
       THEN Put(k, NoCall)
       ELSE IF ~web3Manager.contract
       THEN Put(k, Refreshing(TypeError))
       ELSE Put(k, [NoCall EXCEPT !.at = "estimateGas",
                                  !.candidateId = UI_STATE.selectedCandidate,
                                  !.from = web3Manager.account])
    /\ UNCHANGED <<storage, last, events, recording, pc, frame>>

\* the node executes estimateGas: it runs vote(candidateId) from the
\* sender on the chain as it is then, writes nothing, and answers with the
\* revert string or with an estimate (OK)
estimateGasCall(k) ==
    /\ calls[k].at = "estimateGas"
    /\ ~InFlight(k)
    /\ Put(k, [calls[k] EXCEPT
                 !.answer = <<voteResult(calls[k].from, calls[k].candidateId)>>])
    /\ UNCHANGED <<storage, last, events, recording, pc, frame>>

\* the answer of estimateGas arrives: nothing is sent when the run
\* reverted; otherwise Math.floor(gasEstimate * 1.2) is computed, which
\* throws a TypeError when the library answers with a BigInt (web3.js
\* 4.x), and the transaction is sent, from the account of now
estimateGasAnswered(k, failed, bigint, web3Manager) ==
    /\ calls[k].at = "estimateGas"
    /\ Resumes(k, failed)
    /\ IF failed
       THEN Put(k, Refreshing(RequestFailed))
       ELSE LET reverted == calls[k].answer[1]
            IN  IF reverted # OK
                THEN Put(k, Refreshing(reverted))
                ELSE IF bigint
                THEN Put(k, Refreshing(TypeError))
                ELSE IF web3Manager.account = NullAddress
                THEN Put(k, Refreshing(RequestFailed))
                ELSE Put(k, [calls[k] EXCEPT !.at = "send",
                                             !.from = web3Manager.account,
                                             !.answer = << >>])
    /\ UNCHANGED <<storage, last, events, recording, pc, frame>>

\* the transaction is rejected in the wallet before it is sent, or the
\* request fails, before or after the transaction has been executed
sendDenied(k, message) ==
    /\ calls[k].at = "send"
    /\ message = UserDenied => ~InFlight(k)
    /\ Put(k, Refreshing(message))
    /\ UNCHANGED <<storage, last, events, recording, pc, frame>>

\* the transaction is executed: vote(candidateId) from the sender, on the
\* chain as it is then; the receipt is on its way to the page
sendMined(k) ==
    /\ calls[k].at = "send"
    /\ ~InFlight(k)
    /\ vote(calls[k].from, calls[k].candidateId)
    /\ Put(k, [calls[k] EXCEPT !.answer = <<last'.err>>])

\* the receipt arrives, or the error of the reverted transaction, which
\* sendTransaction throws again
sendAnswered(k) ==
    /\ calls[k].at = "send"
    /\ InFlight(k)
    /\ Put(k, Refreshing(calls[k].answer[1]))
    /\ UNCHANGED <<storage, last, events, recording, pc, frame>>

\* refreshVotingPanel returns and submitVote with it
refreshVotingPanelReturned(k) ==
    /\ calls[k].at = "refreshVotingPanel"
    /\ Put(k, NoCall)
    /\ UNCHANGED <<storage, last, events, recording, pc, frame>>

SubmitVote ==
    \E web3Manager \in Web3Managers, UI_STATE \in UI_STATEs :
        submitVote(web3Manager, UI_STATE)
GetVoterStatusCall == \E k \in Calls : getVoterStatusCall(k)
GetVoterStatusAnswered ==
    \E k \in Calls, failed \in BOOLEAN,
       web3Manager \in Web3Managers, UI_STATE \in UI_STATEsSelected :
        getVoterStatusAnswered(k, failed, web3Manager, UI_STATE)
CandidateCountCall == \E k \in Calls : candidateCountCall(k)
CandidateCountAnswered ==
    \E k \in Calls, failed \in BOOLEAN, api \in ContractAPIs,
       web3Manager \in Web3Managers, UI_STATE \in UI_STATEsSelected :
        candidateCountAnswered(k, failed, api, web3Manager, UI_STATE)
GetCandidateInfoCall == \E k \in Calls : getCandidateInfoCall(k)
GetCandidateInfoAnswered ==
    \E k \in Calls, failed \in BOOLEAN,
       web3Manager \in Web3Managers, UI_STATE \in UI_STATEsSelected :
        getCandidateInfoAnswered(k, failed, web3Manager, UI_STATE)
ConfirmVoteAnswered ==
    \E k \in Calls, confirmed \in BOOLEAN,
       web3Manager \in Web3Managers, UI_STATE \in UI_STATEsSelected :
        confirmVoteAnswered(k, confirmed, web3Manager, UI_STATE)
EstimateGasCall == \E k \in Calls : estimateGasCall(k)
EstimateGasAnswered ==
    \E k \in Calls, failed \in BOOLEAN, bigint \in BOOLEAN,
       web3Manager \in Web3Managers :
        estimateGasAnswered(k, failed, bigint, web3Manager)
SendDenied ==
    \E k \in Calls, message \in {UserDenied, RequestFailed} : sendDenied(k, message)
SendMined == \E k \in Calls : sendMined(k)
SendAnswered == \E k \in Calls : sendAnswered(k)
RefreshVotingPanelReturned == \E k \in Calls : refreshVotingPanelReturned(k)

NextFrontend ==
    \/ Next
    \/ SubmitVote
    \/ GetVoterStatusCall \/ GetVoterStatusAnswered
    \/ CandidateCountCall \/ CandidateCountAnswered
    \/ GetCandidateInfoCall \/ GetCandidateInfoAnswered
    \/ ConfirmVoteAnswered
    \/ EstimateGasCall \/ EstimateGasAnswered
    \/ SendDenied \/ SendMined \/ SendAnswered
    \/ RefreshVotingPanelReturned

\* the contract with a page of the frontend submitting votes
SpecFrontend == Init /\ [][NextFrontend]_vars

\* ================================================================ claims
AdminOps == {"registerVoter", "addCandidate", "toggleVoting", "transferAdmin"}

\* sum of voteCounts over the candidates 1..n
RECURSIVE SumVoteCounts(_)
SumVoteCounts(n) == IF n = 0 THEN 0 ELSE voteCounts[n] + SumVoteCounts(n - 1)

\* the identities that have voted
Voted == {v \in Addresses : hasVoted[v]}

\* C1: hasVoted(v) never goes back from true to false (so it goes false ->
\* true at most once), and every vote sent by an identity that has voted,
\* for any candidate id, fails with AlreadyVoted and changes no vote count,
\* totalVotes or hasVoted flag.
C1_OneVotePerParticipant ==
    [][ /\ \A v \in Addresses : hasVoted[v] => hasVoted'[v]
        /\ (last'.op = "vote" /\ hasVoted[last'.sender]) =>
              /\ last'.err = AlreadyVoted
              /\ voteCounts' = voteCounts
              /\ totalVotes' = totalVotes
              /\ hasVoted' = hasVoted ]_vars

\* a second vote, for an existing candidate in an active election, rejected
C1_Witness ==
    /\ last.op = "vote" /\ last.err = AlreadyVoted
    /\ hasVoted[last.sender] /\ votingActive
    /\ last.id >= 1 /\ last.id <= candidateCount

\* C2: in every reachable state, after successful and failed operations
\* alike, totalVotes is the sum of voteCounts over the ids 1..candidateCount.
C2_TotalVotesIsSum == totalVotes = SumVoteCounts(candidateCount)

\* two votes for two candidates have been counted and the last operation failed
C2_Witness ==
    /\ totalVotes = 2 /\ candidateCount = 2
    /\ voteCounts[1] = 1 /\ voteCounts[2] = 1
    /\ last.err # OK

\* C3: a failed operation, whatever the operation, caller and argument,
\* changes nothing of the storage and emits no event.
C3_FailureChangesNothing ==
    [][ last'.err # OK => (UNCHANGED storage /\ last'.logs = << >>) ]_vars

\* a failed registration in a state that earlier operations have changed
C3_Witness ==
    /\ last.op = "registerVoter" /\ last.err = InvalidVoterAddress
    /\ candidateCount >= 1 /\ votingActive

\* C4: an administrative operation sent by an identity that is not the admin
\* fails with AccessDenied whatever its argument, and changes nothing.
C4_AuthorityGating ==
    [][ (last'.op \in AdminOps /\ last'.sender # admin) =>
            /\ last'.err = AccessDenied
            /\ UNCHANGED storage
            /\ last'.logs = << >> ]_vars

\* a non-admin registering address(0): the caller check comes first
C4_Witness ==
    /\ last.op = "registerVoter" /\ last.sender # admin
    /\ last.addr = NullAddress /\ last.err = AccessDenied

\* C5: vote reports the first violated check in the order registered, not
\* voted, active, valid candidate id; a failed vote changes no vote count and
\* no hasVoted flag.
C5_VoteCheckOrder ==
    [][ last'.op = "vote" =>
          LET s == last'.sender
              i == last'.id
              e == last'.err
          IN  /\ ~registeredVoters[s] => e = NotRegistered
              /\ (registeredVoters[s] /\ hasVoted[s]) => e = AlreadyVoted
              /\ (registeredVoters[s] /\ ~hasVoted[s] /\ ~votingActive) =>
                     e = ElectionInactive
              /\ (registeredVoters[s] /\ ~hasVoted[s] /\ votingActive
                    /\ ~(1 <= i /\ i <= candidateCount)) => e = InvalidCandidate
              /\ e # OK => (voteCounts' = voteCounts /\ hasVoted' = hasVoted) ]_vars

\* an unregistered caller, an inactive election and an invalid id at once
C5_Witness ==
    /\ last.op = "vote" /\ last.err = NotRegistered
    /\ ~registeredVoters[last.sender] /\ ~votingActive
    /\ last.id > candidateCount

\* C6: a successful vote sets the caller's flag, adds one to the candidate's
\* count and to totalVotes and emits one VoteCast event, all in one step; in
\* every reachable state the flags, the counts and totalVotes agree, so no
\* state shows only some of the effects.
C6_VoteAllEffects ==
    /\ [][ (last'.op = "vote" /\ last'.err = OK) =>
              /\ ~hasVoted[last'.sender]
              /\ hasVoted' = [hasVoted EXCEPT ![last'.sender] = TRUE]
              /\ voteCounts' = [voteCounts EXCEPT ![last'.id] = voteCounts[last'.id] + 1]
              /\ totalVotes' = totalVotes + 1
              /\ last'.logs = << VoteCast(last'.sender, last'.id) >> ]_vars
    /\ [] /\ Cardinality(Voted) = totalVotes
          /\ SumVoteCounts(MaxCand + 1) + voteCounts[0] = totalVotes

\* a vote has just been recorded
C6_Witness ==
    /\ last.op = "vote" /\ last.err = OK
    /\ hasVoted[last.sender] /\ voteCounts[last.id] = 1 /\ totalVotes = 1

\* C7: a step that changes a vote count, totalVotes or a hasVoted flag starts
\* in an active election; while the election is inactive a vote by a
\* registered participant who has not voted fails with ElectionInactive.
C7_VotesOnlyWhileActive ==
    [][ /\ (voteCounts' # voteCounts \/ totalVotes' # totalVotes
              \/ hasVoted' # hasVoted) => votingActive
        /\ (last'.op = "vote" /\ registeredVoters[last'.sender]
              /\ ~hasVoted[last'.sender] /\ ~votingActive) =>
                 last'.err = ElectionInactive ]_vars

\* an eligible voter rejected for an existing candidate
C7_Witness ==
    /\ last.op = "vote" /\ last.err = ElectionInactive
    /\ registeredVoters[last.sender] /\ ~hasVoted[last.sender] /\ ~votingActive
    /\ last.id >= 1 /\ last.id <= candidateCount

\* C8: registerVoter by the admin fails with InvalidIdentity for address(0),
\* fails with DuplicateRegistration for a registered identity and leaves the
\* registry as it was, and otherwise sets registered with voted false and
\* emits VoterRegistered.
C8_RegisterVoter ==
    [][ (last'.op = "registerVoter" /\ last'.sender = admin) =>
          LET v == last'.addr
              e == last'.err
          IN  /\ v = NullAddress => e = InvalidVoterAddress
              /\ registeredVoters[v] =>
                    /\ e = DuplicateRegistration
                    /\ registeredVoters' = registeredVoters
                    /\ hasVoted' = hasVoted
              /\ (v # NullAddress /\ ~registeredVoters[v]) =>
                    /\ e = OK
                    /\ registeredVoters' = [registeredVoters EXCEPT ![v] = TRUE]
                    /\ hasVoted'[v] = FALSE
                    /\ last'.logs = << VoterRegistered(v) >> ]_vars

\* the second registration of an identity
C8_Witness ==
    /\ last.op = "registerVoter" /\ last.err = DuplicateRegistration
    /\ registeredVoters[last.addr]

\* C9: candidateCount starts at 0 and changes only in a successful
\* addCandidate, which creates the candidate with id candidateCount + 1, the
\* given name and vote count 0 and makes candidateCount that id (so the k-th
\* one creates id k); the existing candidates are exactly the ids
\* 1..candidateCount.
C9_SequentialIds ==
    /\ [][ /\ (last'.op = "addCandidate" /\ last'.err = OK) =>
                /\ candidateCount' = candidateCount + 1
                /\ candidates' = [candidates EXCEPT ![candidateCount + 1] = last'.name]
                /\ voteCounts'[candidateCount + 1] = 0
                /\ last'.logs = << CandidateAdded(candidateCount + 1, last'.name) >>
           /\ (candidateCount' # candidateCount \/ candidates' # candidates) =>
                (last'.op = "addCandidate" /\ last'.err = OK) ]_vars
    /\ [] \A i \in CandidateIds :
             (1 <= i /\ i <= candidateCount) <=> candidates[i] # EmptyString

\* the second candidate has just been added
C9_Witness ==
    /\ last.op = "addCandidate" /\ last.err = OK
    /\ candidateCount = 2 /\ candidates[2] = last.name
    /\ candidates[1] # EmptyString

\* C10: addCandidate by the admin fails with EmptyName for every name whose
\* trimmed length is 0, and then adds no candidate and emits no event.
C10_BlankNameRejected ==
    [][ (last'.op = "addCandidate" /\ last'.sender = admin
           /\ length(trim(last'.name)) = 0) =>
              /\ last'.err = EmptyName
              /\ candidateCount' = candidateCount
              /\ candidates' = candidates
              /\ last'.logs = << >> ]_vars

\* C11: addCandidate by the admin fails with NameTooLong for every name
\* longer than 64 and accepts every non-empty name of length 1 to 64, the
\* length being the one the contract measures, bytes(_name).length; every
\* stored candidate name has a length between 1 and 64.
C11_NameLengthBound ==
    /\ [][ (last'.op = "addCandidate" /\ last'.sender = admin) =>
              /\ bytesLength(last'.name) > 64 => last'.err = NameTooLong
              /\ (1 <= bytesLength(last'.name) /\ bytesLength(last'.name) <= 64) =>
                    last'.err = OK
              /\ last'.err = NameTooLong => bytesLength(last'.name) > 64 ]_vars
    /\ [] \A i \in 1..candidateCount :
             1 <= bytesLength(candidates[i]) /\ bytesLength(candidates[i]) <= 64

\* a name of exactly 64 bytes has just been stored
C11_Witness ==
    /\ last.op = "addCandidate" /\ last.err = OK
    /\ bytesLength(last.name) = 64
    /\ candidates[candidateCount] = last.name

\* C12: candidateCount never decreases, the name stored for an existing id
\* never changes, no id is removed or reassigned, and no vote count decreases.
C12_CandidatesAppendOnly ==
    [][ /\ candidateCount' >= candidateCount
        /\ \A i \in 1..candidateCount : candidates'[i] = candidates[i]
        /\ \A i \in CandidateIds : voteCounts'[i] >= voteCounts[i] ]_vars

\* a second candidate was added after the first had received a vote
C12_Witness ==
    /\ last.op = "addCandidate" /\ last.err = OK
    /\ candidateCount = 2 /\ voteCounts[1] >= 1
    /\ candidates[1] # EmptyString

\* C13: once registered(v) is true it stays true, and it becomes true only in
\* a successful registerVoter(v) sent by the admin.
C13_RegistrationMonotone ==
    [][ \A v \in Addresses :
          /\ registeredVoters[v] => registeredVoters'[v]
          /\ (~registeredVoters[v] /\ registeredVoters'[v]) =>
                /\ last'.op = "registerVoter" /\ last'.err = OK
                /\ last'.addr = v /\ last'.sender = admin ]_vars

\* a registration made by an admin who is not the deployer
C13_Witness ==
    /\ last.op = "registerVoter" /\ last.err = OK
    /\ registeredVoters[last.addr]
    /\ last.sender = admin /\ admin # Deployer

\* C14: toggleVoting by the admin flips votingActive and emits
\* VotingStatusChanged carrying the new value; a successful toggle that
\* follows a successful toggle returns the flag to the value it had before
\* the first of the two (the negation of the value the first one announced).
C14_ToggleInvolution ==
    [][ /\ (last'.op = "toggleVoting" /\ last'.sender = admin) =>
              /\ last'.err = OK
              /\ votingActive' = ~votingActive
              /\ last'.logs = << VotingStatusChanged(votingActive') >>
        /\ (last.op = "toggleVoting" /\ last.err = OK
              /\ last'.op = "toggleVoting" /\ last'.err = OK) =>
              /\ last.logs[1].active = votingActive
              /\ votingActive' = ~last.logs[1].active
              /\ last'.logs[1].active = ~last.logs[1].active ]_vars

\* two toggles at least have brought an election back to inactive
C14_Witness ==
    /\ last.op = "toggleVoting" /\ last.err = OK
    /\ ~votingActive
    /\ last.logs = << VotingStatusChanged(FALSE) >>

\* C15: in every reachable state the admin is a caller for whom toggleVoting
\* succeeds and flips the flag, whatever the candidates, participants and
\* votes; in particular an inactive election can be made active again.
C15_NoTerminalState ==
    /\ [] /\ admin \in Senders
          /\ toggleVotingResult(admin) = OK
          /\ ENABLED (toggleVoting(admin) /\ votingActive' = ~votingActive)
    /\ [][ (last'.op = "toggleVoting" /\ last'.sender = admin) =>
              (last'.err = OK /\ votingActive' = ~votingActive) ]_vars

\* an election reopened after it was closed with a vote counted
C15_Witness ==
    /\ last.op = "toggleVoting" /\ last.err = OK
    /\ votingActive /\ totalVotes >= 1 /\ candidateCount >= 1

\* C16: transferAdmin by the admin fails with InvalidIdentity for address(0),
\* fails with SameAuthority for the current admin, and otherwise makes the
\* new identity the admin in that one step and emits AdminChanged{old, new}.
C16_TransferAdmin ==
    [][ (last'.op = "transferAdmin" /\ last'.sender = admin) =>
          LET n == last'.addr
              e == last'.err
          IN  /\ n = NullAddress => (e = InvalidAdminAddress /\ admin' = admin)
              /\ n = admin => (e = SameAuthority /\ admin' = admin)
              /\ (n # NullAddress /\ n # admin) =>
                    /\ e = OK
                    /\ admin' = n
                    /\ last'.logs = << AdminChanged(admin, n) >> ]_vars

\* a transfer has just been made
C16_Witness ==
    /\ last.op = "transferAdmin" /\ last.err = OK
    /\ admin = last.addr /\ admin # last.sender
    /\ last.logs = << AdminChanged(last.sender, admin) >>

\* the input of an administrative operation passes its validation
ValidInput(tx) ==
    CASE tx.op = "registerVoter" -> tx.addr # NullAddress /\ ~registeredVoters[tx.addr]
      [] tx.op = "addCandidate" -> 1 <= bytesLength(tx.name) /\ bytesLength(tx.name) <= 64
      [] tx.op = "toggleVoting" -> TRUE
      [] tx.op = "transferAdmin" -> tx.addr # NullAddress /\ tx.addr # admin
      [] OTHER -> FALSE

\* C17: right after a successful transferAdmin(Y) the admin is Y and not the
\* sender; an identity that is not the admin, a former admin included, gets
\* AccessDenied for every administrative operation and becomes the admin
\* only when the admin transfers the authority to it; the operations of the
\* admin with valid input succeed.
C17_FormerAdminLocked ==
    /\ [] ((last.op = "transferAdmin" /\ last.err = OK) =>
              (admin = last.addr /\ admin # last.sender))
    /\ [][ /\ \A x \in Senders : x # admin =>
                /\ (last'.sender = x /\ last'.op \in AdminOps) =>
                      last'.err = AccessDenied
                /\ admin' = x =>
                      /\ last'.op = "transferAdmin" /\ last'.err = OK
                      /\ last'.sender = admin /\ last'.addr = x
           /\ (last'.sender = admin /\ last'.op \in AdminOps /\ ValidInput(last')) =>
                last'.err = OK ]_vars

\* the deployer, no longer the admin, is refused addCandidate
C17_Witness ==
    /\ last.op = "addCandidate" /\ last.sender = Deployer
    /\ last.err = AccessDenied /\ admin # Deployer
    /\ 1 <= bytesLength(last.name) /\ bytesLength(last.name) <= 64

\* C18: the admin is always one non-null identity, and it changes only in a
\* successful transferAdmin sent by the admin of the moment, to the identity
\* given.
C18_SingleAuthority ==
    /\ [] (admin \in Senders)
    /\ [][ admin' # admin =>
              /\ last'.op = "transferAdmin" /\ last'.err = OK
              /\ last'.sender = admin /\ last'.addr = admin' ]_vars

\* the former admin tries to take the authority back and is refused
C18_Witness ==
    /\ last.op = "transferAdmin" /\ last.sender = Deployer
    /\ last.addr = Deployer /\ last.err = AccessDenied
    /\ admin # Deployer

\* the highest vote count among the candidates 1..candidateCount
MaxVotes ==
    CHOOSE m \in 0..NumAddr :
        /\ \A i \in 1..candidateCount : voteCounts[i] <= m
        /\ \E i \in 1..candidateCount : voteCounts[i] = m

\* the candidates holding the highest vote count
Leaders == {i \in 1..candidateCount : voteCounts[i] = MaxVotes}

\* C19: showResults returns the vote counts and the names of all candidates
\* in ascending id order (position i holds candidate i, votes[i-1] of the
\* code) and, with at least one candidate, the lowest id among the candidates
\* holding the highest vote count; with no candidate it returns two empty
\* arrays and winner id 0.
C19_ShowResults ==
    LET r == showResults IN
    /\ Len(r.votes) = candidateCount
    /\ Len(r.names) = candidateCount
    /\ \A i \in 1..candidateCount :
          r.votes[i] = voteCounts[i] /\ r.names[i] = candidates[i]
    /\ candidateCount >= 1 =>
          /\ r.winningCandidateId \in Leaders
          /\ \A i \in Leaders : r.winningCandidateId <= i
    /\ candidateCount = 0 =>
          (r.votes = << >> /\ r.names = << >> /\ r.winningCandidateId = 0)

\* two candidates tie with one vote each and the first is the winner
C19_Witness ==
    /\ candidateCount = 2 /\ voteCounts[1] = 1 /\ voteCounts[2] = 1
    /\ showResults.winningCandidateId = 1
    /\ showResults.votes = << 1, 1 >>

\* C20: getWinner agrees with showResults: winnerExists is false exactly when
\* there is no candidate (then the name is empty and the count 0); otherwise
\* the name and the count are those of the candidate showResults names as
\* winner, and the count is at least every candidate's vote count.
C20_GetWinnerAgrees ==
    LET w == getWinner
        r == showResults
    IN  /\ w.winnerExists <=> candidateCount # 0
        /\ candidateCount = 0 => (w.winnerName = EmptyString /\ w.winnerVotes = 0)
        /\ candidateCount # 0 =>
              /\ w.winnerName = candidates[r.winningCandidateId]
              /\ w.winnerVotes = voteCounts[r.winningCandidateId]
              /\ \A i \in 1..candidateCount : w.winnerVotes >= voteCounts[i]

\* the second of two differently named candidates leads
C20_Witness ==
    /\ candidateCount = 2 /\ candidates[1] # candidates[2]
    /\ voteCounts[2] > voteCounts[1]
    /\ getWinner.winnerName = candidates[2]
    /\ showResults.winningCandidateId = 2

\* C21: for every identity, one that no operation has named included,
\* getVoterStatus returns the stored registered and voted flags, both false
\* for an identity that was never registered, and canVote = registered and
\* not voted and votingActive.
C21_VoterStatus ==
    \A v \in Addresses :
        LET s == getVoterStatus(v) IN
        /\ s.isRegistered = registeredVoters[v]
        /\ s.hasVotedAlready = hasVoted[v]
        /\ s.canVote = (registeredVoters[v] /\ ~hasVoted[v] /\ votingActive)
        /\ ~registeredVoters[v] =>
              (~s.isRegistered /\ ~s.hasVotedAlready /\ ~s.canVote)

\* an active election with a participant who voted, one who can vote and an
\* identity nobody registered
C21_Witness ==
    /\ votingActive
    /\ \E v \in Addresses : getVoterStatus(v).isRegistered
                              /\ getVoterStatus(v).hasVotedAlready
                              /\ ~getVoterStatus(v).canVote
    /\ \E v \in Addresses : getVoterStatus(v).canVote
    /\ ~getVoterStatus(NullAddress).isRegistered

\* C22: getCandidateInfo(id) returns exists = false exactly when id = 0 or
\* id > candidateCount, then with the empty name and count 0; for every id in
\* 1..candidateCount it returns exists = true, the stored name and the
\* current vote count.
C22_CandidateInfo ==
    \A id \in CandidateIds :
        LET c == getCandidateInfo(id) IN
        /\ ~c.exists <=> (id = 0 \/ id > candidateCount)
        /\ ~c.exists => (c.name = EmptyString /\ c.votes = 0)
        /\ (1 <= id /\ id <= candidateCount) =>
              /\ c.exists
              /\ c.name = candidates[id]
              /\ c.votes = voteCounts[id]

\* one candidate with a vote, so that ids exist on both sides of candidateCount
C22_Witness ==
    /\ candidateCount = 1 /\ voteCounts[1] = 1
    /\ getCandidateInfo(1).votes = 1 /\ getCandidateInfo(1).name # EmptyString
    /\ ~getCandidateInfo(0).exists /\ ~getCandidateInfo(2).exists

\* C23: in every reachable state getElectionStats returns the current
\* candidateCount, totalVotes, votingActive and admin; from one state to the
\* next the four values change as one whole transaction changes them: not at
\* all when it fails or registers a voter, and otherwise in the one component
\* the operation writes.
C23_ElectionStats ==
    /\ [] /\ getElectionStats.totalCandidates = candidateCount
          /\ getElectionStats.totalVotesCast = totalVotes
          /\ getElectionStats.isVotingActive = votingActive
          /\ getElectionStats.currentAdmin = admin
    /\ [][ LET a == getElectionStats
               b == getElectionStats'
               ok == last'.err = OK
           IN  /\ (~ok \/ last'.op = "registerVoter") => b = a
               /\ (ok /\ last'.op = "addCandidate") =>
                     b = [a EXCEPT !.totalCandidates = @ + 1]
               /\ (ok /\ last'.op = "vote") =>
                     b = [a EXCEPT !.totalVotesCast = @ + 1]
               /\ (ok /\ last'.op = "toggleVoting") =>
                     b = [a EXCEPT !.isVotingActive = ~@]
               /\ (ok /\ last'.op = "transferAdmin") =>
                     b = [a EXCEPT !.currentAdmin = last'.addr] ]_vars

\* the statistics after a transfer of an election with a candidate and a vote
C23_Witness ==
    /\ last.op = "transferAdmin" /\ last.err = OK
    /\ getElectionStats.currentAdmin = last.addr
    /\ getElectionStats.currentAdmin # Deployer
    /\ getElectionStats.totalCandidates >= 1
    /\ getElectionStats.totalVotesCast >= 1

\* C24: a call of one of the five view functions succeeds for every sender,
\* changes no storage variable and emits no event, and every view returns
\* after the call what it returned before it, so that any number of calls
\* between two transactions return the same results.
C24_QueriesPure ==
    /\ [][ last'.op \in Queries =>
              /\ last'.err = OK
              /\ UNCHANGED storage
              /\ last'.logs = << >> /\ events' = events
              /\ showResults' = showResults
              /\ getWinner' = getWinner
              /\ getElectionStats' = getElectionStats
              /\ \A i \in CandidateIds : getCandidateInfo(i)' = getCandidateInfo(i)
              /\ \A v \in Addresses : getVoterStatus(v)' = getVoterStatus(v) ]_vars
    /\ [] \A s \in Senders :
             /\ ENABLED (callShowResults(s) /\ last'.err = OK)
             /\ ENABLED (callGetWinner(s) /\ last'.err = OK)
             /\ ENABLED (callGetElectionStats(s) /\ last'.err = OK)
             /\ \A i \in CandidateIds :
                   ENABLED (callGetCandidateInfo(s, i) /\ last'.err = OK)
             /\ \A v \in Addresses :
                   ENABLED (callGetVoterStatus(s, v) /\ last'.err = OK)

\* the results read by an identity that is neither the admin nor registered,
\* in an election with a vote
C24_Witness ==
    /\ last.op = "showResults" /\ last.err = OK
    /\ last.sender # admin /\ ~registeredVoters[last.sender]
    /\ totalVotes >= 1 /\ showResults.votes # << >>

\* the event a successful transaction of the receipt tx emits
AuditEventOf(tx) ==
    CASE tx.op = "registerVoter" -> VoterRegistered(tx.addr)
      [] tx.op = "addCandidate" -> CandidateAdded(candidateCount + 1, tx.name)
      [] tx.op = "vote" -> VoteCast(tx.sender, tx.id)
      [] tx.op = "toggleVoting" -> VotingStatusChanged(~votingActive)
      [] tx.op = "transferAdmin" -> AdminChanged(admin, tx.addr)

\* C25: every successful transaction appends exactly one event to the log in
\* the step that changes the storage, of the kind of its operation and with
\* its identifiers (the voter; the new id and the name; the voter and the
\* candidate id; the new flag; the old and the new admin); a failed one
\* appends none; the log only grows at its end, its earlier entries staying
\* as they are.
C25_AuditComplete ==
    [][ /\ last'.err = OK =>
              /\ storage' # storage
              /\ last'.logs = << AuditEventOf(last') >>
              /\ events' = Append(events, AuditEventOf(last'))
        /\ last'.err # OK => events' = events
        /\ storage' # storage => Len(events') = Len(events) + 1
        /\ Len(events') >= Len(events)
        /\ SubSeq(events', 1, Len(events)) = events ]_vars

\* a log that ends with a vote, after a registration, a candidate and a toggle
C25_Witness ==
    /\ Len(events) >= 6
    /\ last.op = "vote" /\ last.err = OK
    /\ events[Len(events)] = VoteCast(last.sender, last.id)
    /\ events[1] = AdminChanged(NullAddress, Deployer)
    /\ \E k \in 1..Len(events) : events[k].type = "CandidateAdded"

\* C26: right after construction, before any transaction, the admin is the
\* deployer, the election is inactive, candidateCount and totalVotes are 0
\* and no identity is registered or has voted.
C26_InitialState ==
    last.op = "constructor" =>
        /\ admin = Deployer
        /\ ~votingActive
        /\ candidateCount = 0
        /\ totalVotes = 0
        /\ \A a \in Addresses : ~registeredVoters[a] /\ ~hasVoted[a]
        /\ \A a \in Addresses : ~getVoterStatus(a).canVote
        /\ ~getWinner.winnerExists

\* the state the constructor leaves
C26_Witness ==
    /\ last.op = "constructor" /\ last.sender = Deployer
    /\ getElectionStats = [totalCandidates |-> 0, totalVotesCast |-> 0,
                           isVotingActive |-> FALSE, currentAdmin |-> Deployer]

\* C27: a successful toggleVoting, closing or reopening, keeps every voted
\* flag, every registration, every vote count and totalVotes; whenever the
\* election is active, however often it was closed and reopened, a vote for
\* an existing candidate by a registered participant who has not voted
\* succeeds, and a vote by a participant who has voted fails with
\* AlreadyVoted whatever the candidate id.
C27_ReopenKeepsHistory ==
    /\ [][ (last'.op = "toggleVoting" /\ last'.err = OK) =>
              /\ hasVoted' = hasVoted
              /\ registeredVoters' = registeredVoters
              /\ voteCounts' = voteCounts
              /\ totalVotes' = totalVotes ]_vars
    /\ [] (votingActive =>
             \A v \in Senders :
                /\ (registeredVoters[v] /\ ~hasVoted[v]) =>
                      \A i \in 1..candidateCount :
                         /\ voteResult(v, i) = OK
                         /\ ENABLED (vote(v, i) /\ last'.err = OK /\ hasVoted'[v]
                                       /\ totalVotes' = totalVotes + 1)
                /\ hasVoted[v] =>
                      \A i \in CandidateIds :
                         /\ voteResult(v, i) = AlreadyVoted
                         /\ ENABLED (vote(v, i) /\ last'.err = AlreadyVoted))

\* an election with a vote counted has just been reopened, one participant
\* having voted and one being still eligible
C27_Witness ==
    /\ last.op = "toggleVoting" /\ last.err = OK /\ votingActive
    /\ totalVotes >= 1 /\ candidateCount >= 1
    /\ \E v \in Senders : hasVoted[v]
    /\ \E v \in Senders : registeredVoters[v] /\ ~hasVoted[v]

\* C29: a successful registerVoter(v) changes registeredVoters[v] only; a
\* successful addCandidate changes candidateCount and the name of the new id
\* only (its vote count is 0 before and after); a successful toggleVoting
\* changes votingActive only; a successful transferAdmin changes admin only,
\* so that the registrations, voted flags, candidates, vote counts,
\* totalVotes and the flag of the old admin's time are kept.  Each emits one
\* event, of its own kind.
C29_AdminOpsFrame ==
    [][ (last'.op \in AdminOps /\ last'.err = OK) =>
          /\ Len(last'.logs) = 1
          /\ last'.op = "registerVoter" =>
                /\ registeredVoters' = [registeredVoters EXCEPT ![last'.addr] = TRUE]
                /\ UNCHANGED <<admin, hasVoted, voteCounts, candidates,
                               candidateCount, totalVotes, votingActive>>
                /\ last'.logs[1].type = "VoterRegistered"
          /\ last'.op = "addCandidate" =>
                /\ candidateCount' = candidateCount + 1
                /\ candidates' = [candidates EXCEPT ![candidateCount'] = last'.name]
                /\ voteCounts[candidateCount'] = 0
                /\ UNCHANGED <<admin, registeredVoters, hasVoted, voteCounts,
                               totalVotes, votingActive>>
                /\ last'.logs[1].type = "CandidateAdded"
          /\ last'.op = "toggleVoting" =>
                /\ votingActive' # votingActive
                /\ UNCHANGED <<admin, registeredVoters, hasVoted, voteCounts,
                               candidates, candidateCount, totalVotes>>
                /\ last'.logs[1].type = "VotingStatusChanged"
          /\ last'.op = "transferAdmin" =>
                /\ admin' = last'.addr
                /\ UNCHANGED <<registeredVoters, hasVoted, voteCounts, candidates,
                               candidateCount, totalVotes, votingActive>>
                /\ last'.logs[1].type = "AdminChanged" ]_vars

\* the authority of an active election with a registration, a candidate and
\* a vote has just been transferred
C29_Witness ==
    /\ last.op = "transferAdmin" /\ last.err = OK /\ admin = last.addr
    /\ votingActive /\ candidateCount >= 1 /\ totalVotes >= 1
    /\ \E v \in Senders : registeredVoters[v] /\ hasVoted[v]

\* C30: a successful vote(candidateId) by c changes hasVoted for c only and
\* voteCounts for candidateId only; the registered flags, the voted flags of
\* the others, the counts of the other candidates, all names,
\* candidateCount, votingActive and admin are unchanged.
C30_VoteFrame ==
    [][ (last'.op = "vote" /\ last'.err = OK) =>
          /\ \A a \in Addresses : a # last'.sender => hasVoted'[a] = hasVoted[a]
          /\ hasVoted'[last'.sender] # hasVoted[last'.sender]
          /\ \A i \in CandidateIds : i # last'.id => voteCounts'[i] = voteCounts[i]
          /\ voteCounts'[last'.id] # voteCounts[last'.id]
          /\ UNCHANGED <<registeredVoters, candidates, candidateCount,
                         votingActive, admin>> ]_vars

\* the second vote of an election, for another candidate than the first
C30_Witness ==
    /\ last.op = "vote" /\ last.err = OK
    /\ totalVotes = 2 /\ candidateCount = 2
    /\ voteCounts[1] = 1 /\ voteCounts[2] = 1
    /\ \E a \in Senders : a # last.sender /\ hasVoted[a]

\* the storage is the result of whole transactions: the flags, the counts,
\* totalVotes and the candidates agree
WholeState ==
    /\ Cardinality(Voted) = totalVotes
    /\ SumVoteCounts(candidateCount) = totalVotes
    /\ \A i \in 1..candidateCount : candidates[i] # EmptyString

\* the outcome the checks of the call tx have in the current storage
ResultOf(tx) ==
    CASE tx.op = "registerVoter" -> registerVoterResult(tx.sender, tx.addr)
      [] tx.op = "addCandidate" -> addCandidateResult(tx.sender, tx.name)
      [] tx.op = "toggleVoting" -> toggleVotingResult(tx.sender)
      [] tx.op = "transferAdmin" -> transferAdminResult(tx.sender, tx.addr)
      [] tx.op = "vote" -> voteResult(tx.sender, tx.id)

\* C28: with every function executed statement by statement, no storage
\* write precedes a require: whenever a require is about to be evaluated the
\* storage is the one the transaction started with, so a transaction that
\* aborts has written nothing, and it reports the first failing check; in
\* vote no write to hasVoted, voteCounts or totalVotes happens before the
\* four checks have passed; and a transaction starts only when none is
\* executing, in a storage that whole transactions have produced, so the
\* states in which a mutation is half applied are seen by no operation.
C28_ValidateThenCommit ==
    /\ [] ((pc > 0 /\ Stmt \in Requires) => storage = frame.saved)
    /\ [][ pc > 0 =>
              /\ (pc' = 0 /\ last'.err # OK) =>
                    /\ storage = frame.saved
                    /\ UNCHANGED storage
                    /\ last'.logs = << >>
                    /\ last'.err = ResultOf(last)
              /\ (last.op = "vote"
                    /\ (hasVoted' # hasVoted \/ voteCounts' # voteCounts
                          \/ totalVotes' # totalVotes)) =>
                    /\ pc > 4
                    /\ frame.saved[2][last.sender]
                    /\ ~frame.saved[3][last.sender]
                    /\ frame.saved[8]
                    /\ last.id > 0 /\ last.id <= frame.saved[6] ]_vars
    /\ [] (pc = 0 => WholeState)
    /\ [] (pc > 0 => ~ENABLED (BeginRegisterVoter \/ BeginAddCandidate
                                 \/ BeginToggleVoting \/ BeginTransferAdmin
                                 \/ BeginVote))

\* inside a vote: the flag of the voter is written, totalVotes not yet
C28_Witness ==
    /\ pc > 0 /\ last.op = "vote" /\ last.err = Pending
    /\ hasVoted[last.sender] /\ ~frame.saved[3][last.sender]
    /\ totalVotes = frame.saved[7]
    /\ ~WholeState

\* the storage before the constructor runs: every slot holds its default
EmptyStorage ==
    << NullAddress,
       [a \in Addresses |-> FALSE],
       [a \in Addresses |-> FALSE],
       [i \in CandidateIds |-> 0],
       [i \in CandidateIds |-> EmptyString],
       0, 0, FALSE >>

\* what an observer of the log does with one event; st is a storage in the
\* order of the tuple storage
ApplyEvent(st, ev) ==
    CASE ev.type = "AdminChanged" -> [st EXCEPT ![1] = ev.newAdmin]
      [] ev.type = "VoterRegistered" -> [st EXCEPT ![2][ev.voter] = TRUE]
      [] ev.type = "VoteCast" ->
             [st EXCEPT ![3][ev.voter] = TRUE,
                        ![4][ev.candidateId] = @ + 1,
                        ![7] = @ + 1]
      [] ev.type = "CandidateAdded" ->
             [st EXCEPT ![5][ev.candidateId] = ev.name,
                        ![6] = ev.candidateId]
      [] ev.type = "VotingStatusChanged" -> [st EXCEPT ![8] = ev.active]

RECURSIVE Replay(_, _)
Replay(log, st) ==
    IF log = << >> THEN st ELSE Replay(Tail(log), ApplyEvent(st, Head(log)))

\* C31: replaying the recorded log, the two events of the constructor
\* included, from the empty storage gives exactly the current admin,
\* votingActive, registrations, voted flags, vote counts, candidate names,
\* candidateCount and totalVotes.
C31_LogDeterminesState == Replay(events, EmptyStorage) = storage

\* a log with a registration, a candidate, an opening and a vote replayed
C31_Witness ==
    /\ Len(events) >= 6 /\ totalVotes = 1 /\ votingActive
    /\ events[Len(events)].type = "VoteCast"
    /\ Replay(events, EmptyStorage)[4] = voteCounts
    /\ Replay(events, EmptyStorage)[7] = 1
    /\ Replay(SubSeq(events, 1, 2), EmptyStorage)[1] = Deployer

\* the registered identities
Registered == {v \in Addresses : registeredVoters[v]}

\* C32: in every reachable state totalVotes is the number of identities
\* that have voted, every identity that has voted is registered, and so
\* totalVotes is at most the number of registered identities.
C32_VotesBackedByVoters ==
    /\ totalVotes = Cardinality(Voted)
    /\ Voted \subseteq Registered
    /\ totalVotes <= Cardinality(Registered)

\* two registered participants, one of whom has voted
C32_Witness ==
    /\ Cardinality(Registered) = 2 /\ Cardinality(Voted) = 1
    /\ totalVotes = 1 /\ Voted # Registered

\* C33: in every reachable state voteCounts is 0 at key 0 and at every key
\* above candidateCount; a successful addCandidate writes no vote count, and
\* the candidate it creates has count 0.
C33_NoCountsOutsideCandidates ==
    /\ [] \A i \in CandidateIds :
             (i = 0 \/ i > candidateCount) => voteCounts[i] = 0
    /\ [][ (last'.op = "addCandidate" /\ last'.err = OK) =>
              /\ voteCounts' = voteCounts
              /\ voteCounts'[candidateCount'] = 0 ]_vars

\* a candidate added to an election with a vote starts with no votes
C33_Witness ==
    /\ last.op = "addCandidate" /\ last.err = OK
    /\ candidateCount = 2 /\ totalVotes >= 1
    /\ voteCounts[2] = 0 /\ voteCounts[1] = totalVotes

\* C34: in every reachable state the admin is not address(0), and
\* address(0) is neither registered nor marked as having voted.
C34_NullHoldsNoRole ==
    /\ admin # NullAddress
    /\ ~registeredVoters[NullAddress]
    /\ ~hasVoted[NullAddress]

\* an admin who is not the deployer was refused a transfer to address(0)
C34_Witness ==
    /\ last.op = "transferAdmin" /\ last.addr = NullAddress
    /\ last.err = InvalidAdminAddress /\ last.sender = admin
    /\ admin # Deployer /\ admin # NullAddress

\* C35: for every identity v that can send a transaction, in every
\* reachable state: if getVoterStatus(v).canVote is false, vote by v fails
\* for every candidate id; if it is true, vote(id) by v succeeds exactly
\* when 1 <= id <= candidateCount, so that with no candidate canVote can be
\* true while no vote succeeds.  The same holds of every vote executed.
C35_CanVotePredictsVote ==
    /\ [] \A v \in Senders, i \in CandidateIds :
             /\ ~getVoterStatus(v).canVote => voteResult(v, i) # OK
             /\ getVoterStatus(v).canVote =>
                   (voteResult(v, i) = OK <=> (1 <= i /\ i <= candidateCount))
    /\ [][ last'.op = "vote" =>
              /\ ~getVoterStatus(last'.sender).canVote =>
                    (last'.err # OK /\ UNCHANGED storage)
              /\ getVoterStatus(last'.sender).canVote =>
                    (last'.err = OK <=> (1 <= last'.id /\ last'.id <= candidateCount)) ]_vars

\* an identity that can vote is refused in an election without candidates
C35_Witness ==
    /\ last.op = "vote" /\ last.err = InvalidCandidate
    /\ candidateCount = 0 /\ getVoterStatus(last.sender).canVote

\* C36: whenever there is a candidate and every vote count is 0,
\* showResults returns winner id 1 and getWinner returns the name of
\* candidate 1, 0 votes and winnerExists = true.
C36_WinnerWithNoVotes ==
    (candidateCount >= 1 /\ \A i \in CandidateIds : voteCounts[i] = 0) =>
        /\ showResults.winningCandidateId = 1
        /\ getWinner = [winnerName |-> candidates[1], winnerVotes |-> 0,
                        winnerExists |-> TRUE]

\* two differently named candidates and no vote
C36_Witness ==
    /\ candidateCount = 2 /\ totalVotes = 0
    /\ candidates[1] # candidates[2]
    /\ getWinner.winnerExists /\ getWinner.winnerName = candidates[1]
    /\ showResults.winningCandidateId = 1

\* C37: addCandidate by the admin with a name of 1 to 64 bytes succeeds
\* whether the election is active or not; a successful addCandidate leaves
\* the winner id of showResults and the result of getWinner as they were,
\* except the first one, which takes the winner id from 0 to 1 and
\* winnerExists from false to true.
C37_AddKeepsLeader ==
    /\ [][ (last'.op = "addCandidate" /\ last'.sender = admin
              /\ 1 <= bytesLength(last'.name)
              /\ bytesLength(last'.name) <= MaxNameLength) =>
                 last'.err = OK ]_vars
    /\ [][ (last'.op = "addCandidate" /\ last'.err = OK) =>
              IF candidateCount = 0
              THEN /\ showResults.winningCandidateId = 0
                   /\ showResults'.winningCandidateId = 1
                   /\ ~getWinner.winnerExists
                   /\ getWinner' = [winnerName |-> last'.name, winnerVotes |-> 0,
                                    winnerExists |-> TRUE]
              ELSE /\ showResults'.winningCandidateId = showResults.winningCandidateId
                   /\ getWinner' = getWinner ]_vars

\* a candidate added to an active election whose first candidate leads
C37_Witness ==
    /\ last.op = "addCandidate" /\ last.err = OK /\ votingActive
    /\ candidateCount = 2 /\ voteCounts[1] >= 1
    /\ showResults.winningCandidateId = 1
    /\ getWinner.winnerVotes = voteCounts[1]

\* C38: submitVote sends vote(candidateId) only after it has read
\* canVote = true and found the selection in the candidate list, and the
\* user has confirmed, and castVote sends it only after estimateGas has
\* answered with an estimate.  Those answers are made on the chain as it
\* was when the node executed the requests; whatever is executed between
\* them and the transaction of the page, the contract decides on the state
\* the transaction is executed on: when the election is closed then, or a
\* vote of the sending account is recorded then, the transaction is
\* rejected and changes nothing, and the page receives that rejection.
\* The run estimateGas makes of the call changes nothing either, and the
\* page sends nothing when it reverted.  So no vote is counted twice and
\* none while the election is inactive.
C38_FrontendCheckNotTrusted ==
    /\ [][ \A k \in Calls :
             (/\ calls[k].at = "send" /\ Len(calls[k].answer) = 0
              /\ calls'[k].at = "send" /\ Len(calls'[k].answer) = 1) =>
               LET a == calls[k].from
                   c == calls[k].candidateId
               IN  /\ last'.op = "vote" /\ last'.sender = a /\ last'.id = c
                   /\ calls'[k].answer = <<last'.err>>
                   /\ hasVoted[a] => (last'.err = AlreadyVoted /\ UNCHANGED storage)
                   /\ ~votingActive => (last'.err # OK /\ UNCHANGED storage)
                   /\ (registeredVoters[a] /\ ~hasVoted[a] /\ ~votingActive) =>
                         last'.err = ElectionInactive
                   /\ last'.err = OK =>
                         /\ votingActive /\ ~hasVoted[a] /\ hasVoted'[a]
                         /\ totalVotes' = totalVotes + 1 ]_vars
    /\ [][ \A k \in Calls :
             (/\ calls[k].at = "send" /\ Len(calls[k].answer) = 1
              /\ calls'[k] # calls[k]) =>
               /\ UNCHANGED <<storage, last>>
               /\ calls'[k].at = "refreshVotingPanel"
               /\ calls'[k].error \in {calls[k].answer[1], RequestFailed} ]_vars
    /\ [][ \A k \in Calls :
             (/\ calls[k].at = "estimateGas" /\ Len(calls[k].answer) = 0
              /\ calls'[k].at = "estimateGas" /\ Len(calls'[k].answer) = 1) =>
               /\ UNCHANGED <<storage, last>>
               /\ (~votingActive \/ hasVoted[calls[k].from]) =>
                     calls'[k].answer[1] # OK ]_vars
    /\ [][ \A k \in Calls :
             (calls[k].at # "send" /\ calls'[k].at = "send") =>
               /\ calls[k].at = "estimateGas"
               /\ calls[k].answer = <<OK>>
               /\ calls'[k].candidateId = calls[k].candidateId
               /\ UNCHANGED <<storage, last>> ]_vars
    /\ [][ (totalVotes' # totalVotes \/ voteCounts' # voteCounts) =>
              /\ votingActive
              /\ ~hasVoted[last'.sender]
              /\ totalVotes' = totalVotes + 1 ]_vars
    /\ [] /\ totalVotes = Cardinality(Voted)
          /\ totalVotes = SumVoteCounts(candidateCount)

\* the page read canVote = true, found its selection and was given an
\* estimate; a vote of the same account was recorded before the
\* transaction of the page was executed, which the contract rejected: the
\* rejection is on its way to the page
C38_Witness ==
    \E k \in Calls :
        /\ calls[k].at = "send"
        /\ calls[k].answer = <<AlreadyVoted>>
        /\ last.op = "vote" /\ last.err = AlreadyVoted
        /\ last.sender = calls[k].from
        /\ hasVoted[last.sender] /\ totalVotes = Cardinality(Voted)
====
